---- MODULE Spec2Model ----
(***************************************************************************)
(* Configuration / argument engine of the assets explorer.                 *)
(*                                                                         *)
(*   - the layered configuration store (src/src/engine/config.py,          *)
(*     src/src/app_path.py): scopes, backing files, trust-ordered merge,   *)
(*     dump;                                                               *)
(*   - the argument parser and its prompter (src/src/engine/cli.py).       *)
(*                                                                         *)
(* JSON values are tagged records [t, v]:                                  *)
(*   t = "s"  a scalar (number / string / bool),  v its code               *)
(*   t = "n"  null (Python None),                 v = 0                    *)
(*   t = "l"  a list,                             v a sequence of scalars  *)
(*   t = "m"  a map (dict),                       v a function from keys   *)
(* A "dict" below is the function inside a map value.  Scope keys and      *)
(* dotted paths are sequences of segments ("loggers.u" is                  *)
(* <<"loggers", "u">>).                                                    *)
(***************************************************************************)
EXTENDS Integers, Sequences, FiniteSets, TLC

\* ------------------------------------------------------------------ bounds
\* Scalars stored in configuration values range over 1..MaxVal.
MaxVal == 2
\* Number of store operations in one behaviour.
MaxOps == 3

\* ------------------------------------------------------------------ values
Scalar(n) == [t |-> "s", v |-> n]
Null == [t |-> "n", v |-> 0]
List(s) == [t |-> "l", v |-> s]
Map(d) == [t |-> "m", v |-> d]
EmptyDict == <<>>
IsMap(x) == x.t = "m"

\* The dict holding exactly k: x.
One(k, x) == [i \in {k} |-> x]

\* ------------------------------------------------------------- utilities
\* _deep_merge(base, override): recursive merge of two dicts, override wins.
\* Variants: one that joins two lists, one that does not recurse into maps.
RECURSIVE _deep_merge_concat(_, _)
_deep_merge_concat(base, override) ==
    [k \in DOMAIN base \cup DOMAIN override |->
        IF k \in DOMAIN override
        THEN IF k \in DOMAIN base /\ IsMap(base[k]) /\ IsMap(override[k])
             THEN Map(_deep_merge_concat(base[k].v, override[k].v))
             ELSE IF k \in DOMAIN base /\ base[k].t = "l" /\ override[k].t = "l"
                  THEN List(base[k].v \o override[k].v)
                  ELSE override[k]
        ELSE base[k]]

_deep_merge_shallow(base, override) ==
    [k \in DOMAIN base \cup DOMAIN override |->
        IF k \in DOMAIN override THEN override[k] ELSE base[k]]

RECURSIVE _deep_merge(_, _)
_deep_merge(base, override) ==
    [k \in DOMAIN base \cup DOMAIN override |->
        IF k \in DOMAIN override
        THEN IF k \in DOMAIN base /\ IsMap(base[k]) /\ IsMap(override[k])
             THEN Map(_deep_merge(base[k].v, override[k].v))
             ELSE override[k]
        ELSE base[k]]

\* deep_merge_dicts(*dicts): left to right, later dicts win.  Operates on
\* map values; a non-map operand is replaced by / replaces the other side.
MergeVal(a, b) ==
    IF IsMap(a) /\ IsMap(b) THEN Map(_deep_merge(a.v, b.v)) ELSE b

RECURSIVE deep_merge_dicts(_)
deep_merge_dicts(ds) ==
    IF Len(ds) = 1 THEN ds[1]
    ELSE MergeVal(deep_merge_dicts(SubSeq(ds, 1, Len(ds) - 1)), ds[Len(ds)])

\* nest_dict(d, key): wrap d under the dotted key, outermost segment first.
RECURSIVE nest_dict(_, _)
nest_dict(d, key) ==
    IF key = <<>> THEN d
    ELSE Map(One(key[1], nest_dict(d, Tail(key))))

\* dict_path(d, key, default): the value at the dotted key, or default when
\* a segment is absent or an intermediate value is not a map.
RECURSIVE dict_path(_, _, _)
dict_path(d, key, default) ==
    IF key = <<>> THEN d
    ELSE IF IsMap(d) /\ key[1] \in DOMAIN d.v
         THEN dict_path(d.v[key[1]], Tail(key), default)
         ELSE default

\* ------------------------------------------------------------ file system
\* The shared top-level file, the module scope's own file and a file named by
\* specify_file_path.  NoPath is a config_fpath of None.
GlobalPath == "config.json"
ModPath == "config/mod.json"
OtherPath == "tests/dump.json"
NoPath == "None"
Paths == {GlobalPath, ModPath, OtherPath}

\* A file is missing, empty (zero bytes, as left by touch), bad (a regular
\* file that is malformed or unreadable) or holds a JSON document.
Missing == [st |-> "missing", v |-> Null]
EmptyFile == [st |-> "empty", v |-> Null]
BadFile == [st |-> "bad", v |-> Null]
JsonFile(x) == [st |-> "json", v |-> x]

\* json.dump followed by json.load, by structure: scalars, null and lists
\* keep their value, a map is rebuilt key by key.
RECURSIVE json_roundtrip(_)
json_roundtrip(x) ==
    IF IsMap(x) THEN Map([k \in DOMAIN x.v |-> json_roundtrip(x.v[k])])
    ELSE IF x.t = "l" THEN List([i \in 1..Len(x.v) |-> x.v[i]])
    ELSE x

\* AppPath.validate(action): [ok, fs].  A missing file is an error when
\* reading; when writing it is touched (created empty).
validate(fs, path, action) ==
    IF fs[path].st # "missing" THEN [ok |-> TRUE, fs |-> fs]
    ELSE IF action = "r" THEN [ok |-> FALSE, fs |-> fs]
    ELSE [ok |-> TRUE, fs |-> [fs EXCEPT ![path] = EmptyFile]]

\* AppPath.read_json: [ok, v]; any failure of open / json.load is an
\* AppPathError.
read_json(fs, path) ==
    IF fs[path].st = "json" THEN [ok |-> TRUE, v |-> fs[path].v]
    ELSE [ok |-> FALSE, v |-> Null]

\* AppPath.write_json(dict, merge): [ok, fs].
write_json(fs, path, d, merge) ==
    IF merge /\ ~read_json(fs, path).ok THEN [ok |-> FALSE, fs |-> fs]
    ELSE LET write_dict == IF merge
                           THEN deep_merge_dicts(<<read_json(fs, path).v, d>>)
                           ELSE d
         IN [ok |-> TRUE,
             fs |-> [fs EXCEPT ![path] = JsonFile(json_roundtrip(write_dict))]]

\* ------------------------------------------------------------ Config
\* Scope keys: the module scope (not nested) and a logger scope (nested).
ModKey == <<"mod">>
LogKey == <<"loggers", "u">>
ScopeKeys == {ModKey, LogKey}
ModName == "mod"

\* Config.nested is False, True, or the config key of the bound module.
IsNestedKey(key) == Len(key) > 1
NestedTruthy(n) == n # "False"
NestedIsStr(n) == n \notin {"False", "True"}

_specific_config_fpath(key) == ModPath

\* Variant: the except branch returns nothing (None) instead of {}.
_safe_read_json_none(fs, path) ==
    IF path = NoPath THEN Map(EmptyDict)
    ELSE IF ~validate(fs, path, "r").ok THEN Null
    ELSE IF ~read_json(fs, path).ok THEN Null
    ELSE read_json(fs, path).v

\* Config._safe_read_json: a None path, a failed validate or a failed read
\* give {}.
_safe_read_json(fs, path) ==
    IF path = NoPath THEN Map(EmptyDict)
    ELSE IF ~validate(fs, path, "r").ok THEN Map(EmptyDict)
    ELSE IF ~read_json(fs, path).ok THEN Map(EmptyDict)
    ELSE read_json(fs, path).v

\* Config._safe_write_json (path is not None): the file system afterwards.
\* An AppPathError of validate or write_json is logged and swallowed.
_safe_write_json(fs, path, d) ==
    LET val == validate(fs, path, "w")
    IN IF ~val.ok THEN val.fs
       ELSE write_json(val.fs, path, d, TRUE).fs

\* A Config object: nested, _config_fpath, _specific_config_dict,
\* _merged_config_dict.
Cfg(nested, fpath, specific, merged) ==
    [nested |-> nested, fpath |-> fpath, specific |-> specific, merged |-> merged]

\* Variant: the in-RAM dict is kept under both trust orders.
start_specific_keep(cfg, trust) == cfg.specific

\* Config._update, lines 96-103: the in-RAM dict the merge starts from.
start_specific(cfg, trust) ==
    \* When trusting file, start fresh
    IF trust = "file" THEN Map(EmptyDict) ELSE cfg.specific

\* Variants: the file-first order, and the dict-last order, under both
\* trust orders.
trust_specific_file_wins(trust, update_config_dict, specific_config_dict, specific_config_file_dict) ==
    deep_merge_dicts(<<update_config_dict, specific_config_dict,
                       specific_config_file_dict>>)

trust_merged_specific_wins(trust, new_specific, merged_config_file_dict) ==
    deep_merge_dicts(<<merged_config_file_dict, new_specific>>)

\* Config._update, lines 148-168: merge according to trust order.
trust_specific(trust, update_config_dict, specific_config_dict, specific_config_file_dict) ==
    IF trust = "file"
    THEN deep_merge_dicts(<<update_config_dict, specific_config_dict,
                            specific_config_file_dict>>)
    ELSE deep_merge_dicts(<<specific_config_file_dict, specific_config_dict,
                            update_config_dict>>)

trust_merged(trust, new_specific, merged_config_file_dict) ==
    IF trust = "file"
    THEN deep_merge_dicts(<<new_specific, merged_config_file_dict>>)
    ELSE deep_merge_dicts(<<merged_config_file_dict, new_specific>>)

\* Config._update, lines 113-123: the backing file's contents, nested at key.
specific_file_dict(cfg, fs, key) ==
    IF NestedTruthy(cfg.nested)
    THEN nest_dict(dict_path(_safe_read_json(fs, cfg.fpath), key, Map(EmptyDict)), key)
    ELSE nest_dict(_safe_read_json(fs, cfg.fpath), key)

\* Config._update, lines 125-146: the shared file's subtree at key, merged
\* with the bound module's subtree and the backing file's contents.
merged_file_dict(cfg, fs, key) ==
    LET merged_read == _safe_read_json(fs, GlobalPath)
        nested_merged_config_file_dict ==
            IF NestedIsStr(cfg.nested)
            THEN nest_dict(dict_path(merged_read, <<cfg.nested>> \o key,
                                     Map(EmptyDict)), key)
            ELSE Map(EmptyDict)
    IN deep_merge_dicts(<<
           nest_dict(dict_path(merged_read, key, Map(EmptyDict)), key),
           nested_merged_config_file_dict,
           specific_file_dict(cfg, fs, key)>>)

\* Config._update(trust, config_dict): [ok, cfg]; ok is FALSE when the sanity
\* check raises ConfigError (the dicts are assigned before it).
_update(cfg, fs, key, trust, config_dict) ==
    LET spec == trust_specific(trust,
                               nest_dict(config_dict, key),
                               nest_dict(start_specific(cfg, trust), key),
                               specific_file_dict(cfg, fs, key))
        merged == trust_merged(trust, spec, merged_file_dict(cfg, fs, key))
        new_specific == dict_path(spec, key, Null)
        new_merged == dict_path(merged, key, Null)
    IN [ok |-> ~(new_specific = Null \/ new_merged = Null),
        cfg |-> [cfg EXCEPT !.specific = new_specific, !.merged = new_merged]]

\* Config.reload(trust, config_dict)
reload(cfg, fs, key, trust, config_dict) == _update(cfg, fs, key, trust, config_dict)

\* Config.specify_file_path(new_path, reload): [ok, cfg].
specify_file_path(cfg, fs, key, new_path, do_reload) ==
    LET c1 == [cfg EXCEPT !.fpath =
                  IF new_path = NoPath
                  THEN (IF NestedTruthy(cfg.nested) THEN NoPath
                        ELSE _specific_config_fpath(key))
                  ELSE new_path]
    IN IF do_reload THEN reload(c1, fs, key, "file", Map(EmptyDict))
       ELSE [ok |-> TRUE, cfg |-> c1]

\* Config.__init__(key, trust, config_dict): [ok, cfg].
Config_init(fs, key, trust, config_dict) ==
    LET c0 == Cfg(IF IsNestedKey(key) THEN "True" ELSE "False", NoPath,
                  Map(EmptyDict), Map(EmptyDict))
        c1 == specify_file_path(c0, fs, key, NoPath, FALSE).cfg
    IN reload(c1, fs, key, trust, config_dict)

\* Variant: the default is dropped.
Config_get_no_default(cfg, key, default) ==
    IF key = <<>> THEN cfg.merged ELSE dict_path(cfg.merged, key, Null)

\* Config.get(key, default)
\* A read that looks at the scope's own values only.
Config_get_specific(cfg, key, default) ==
    IF key = <<>> THEN cfg.specific ELSE dict_path(cfg.specific, key, default)

Config_get(cfg, key, default) ==
    IF key = <<>> THEN cfg.merged ELSE dict_path(cfg.merged, key, default)

\* Config.dump(target): [raised, cfgs, fs].  Raises ConfigError before any
\* write when there is no dump file, and (after the write) when the bound
\* module's scope is not in the registry.
Config_dump(cfgs, fs, key, target) ==
    LET cfg == cfgs[key]
        dump_file == IF target = "merged" THEN GlobalPath ELSE cfg.fpath
        dump_dict == IF target = "merged" \/ NestedTruthy(cfg.nested)
                     THEN nest_dict(IF target # "merged" THEN cfg.specific
                                    ELSE cfg.merged, key)
                     ELSE cfg.specific
        fs1 == _safe_write_json(fs, dump_file, dump_dict)
        parent == <<cfg.nested>>
    IN IF dump_file = NoPath THEN [raised |-> TRUE, cfgs |-> cfgs, fs |-> fs]
       ELSE IF ~NestedIsStr(cfg.nested) THEN [raised |-> FALSE, cfgs |-> cfgs, fs |-> fs1]
       ELSE IF parent \notin DOMAIN cfgs THEN [raised |-> TRUE, cfgs |-> cfgs, fs |-> fs1]
       ELSE [raised |-> FALSE,
             cfgs |-> [cfgs EXCEPT
                 ![parent].specific = deep_merge_dicts(<<cfgs[parent].specific, dump_dict>>),
                 ![parent].merged = deep_merge_dicts(<<cfgs[parent].merged, dump_dict>>)],
             fs |-> fs1]

\* Config.reload_for_module(module): [ok, cfg] for a nested scope; module is
\* the bound module's config key, or "None" to unload.
\* A rebinding that re-points the scope and keeps its values.
Config_reload_for_module_keep(cfgs, fs, key, module) ==
    LET cfg == cfgs[key]
    IN IF module = "None"
       THEN specify_file_path([cfg EXCEPT !.nested = "True"], fs, key, NoPath, FALSE)
       ELSE specify_file_path([cfg EXCEPT !.nested = module], fs, key,
                              cfgs[<<module>>].fpath, FALSE)

Config_reload_for_module(cfgs, fs, key, module) ==
    LET cfg == cfgs[key]
    IN IF module = "None"
       THEN specify_file_path([cfg EXCEPT !.nested = "True"], fs, key, NoPath, TRUE)
       ELSE specify_file_path([cfg EXCEPT !.nested = module], fs, key,
                              cfgs[<<module>>].fpath, TRUE)

\* A registry lookup that builds the scope when the key is new.
get_or_create(cfgs, fs, key) ==
    IF key \in DOMAIN cfgs THEN [raised |-> FALSE, cfgs |-> cfgs]
    ELSE [raised |-> FALSE,
          cfgs |-> [k \in DOMAIN cfgs \cup {key} |->
                      IF k = key THEN Config_init(fs, key, "file", Map(EmptyDict)).cfg
                      ELSE cfgs[k]]]

\* get(key) of the registry: the scope stored under the key, or ConfigError
\* when no scope was created under it; the registry is left as it is.
get(cfgs, fs, key) == [raised |-> key \notin DOMAIN cfgs, cfgs |-> cfgs]

\* Variant: the unbinding loop stops after the first nested scope.
reload_for_module_first(cfgs, fs, module) ==
    [k \in DOMAIN cfgs |->
        IF NestedTruthy(cfgs[k].nested) /\ (module # "None" \/ k = LogKey)
        THEN Config_reload_for_module(cfgs, fs, k, module).cfg ELSE cfgs[k]]

\* reload_for_module(module) of the registry: every nested scope is bound to
\* the module, or unbound when module is "None".
reload_for_module(cfgs, fs, module) ==
    [k \in DOMAIN cfgs |->
        IF NestedTruthy(cfgs[k].nested)
        THEN Config_reload_for_module(cfgs, fs, k, module).cfg ELSE cfgs[k]]

\* ------------------------------------------------------------ Cli
\* The retry limit of CLiPrompter.request_value.
MaxRequests == 3
\* Frames of get_arg that may nest before the interpreter gives up with a
\* RecursionError.
MaxDepth == 6

\* Values of arguments: None, a single value, or a list.
NoneV == [k |-> "none", v |-> <<>>]
V1(s) == [k |-> "one", v |-> <<s>>]
VN(s) == [k |-> "many", v |-> s]
\* Python truthiness of a value.
Truthy(x) == x.k # "none" /\ x.v # <<>> /\ x # V1("False") /\ x # V1("")

\* The registered arguments: the parser's own --silent and --auto-confirm,
\* and ConfigModule's --reload and --names.
Flags == {"--silent", "--auto-confirm", "--reload", "--names"}
BoolAccepted == {"Y", "Yes", "N", "No", "True", "False", "y", "yes", "n", "no", "true", "false"}
NoAccepted == {"None"}

\* CliArgument(long, default, expect, type, required, accepted_values) after
\* _finalize: a bool argument has the yes/no words accepted and default
\* False.  --test-data is an argument of paths: its type is AppPath.
ArgDef(flag) ==
    IF flag \in {"--silent", "--auto-confirm"}
    THEN [type |-> "bool", expect |-> "one", required |-> FALSE,
          default |-> V1("False"), accepted |-> BoolAccepted]
    ELSE IF flag = "--test-data"
    THEN [type |-> "AppPath", expect |-> "many", required |-> FALSE,
          default |-> NoneV, accepted |-> NoAccepted]
    ELSE IF flag = "--reload"
    THEN [type |-> "str", expect |-> "one", required |-> FALSE,
          default |-> NoneV, accepted |-> {"file", "dict"}]
    ELSE [type |-> "replace", expect |-> "many", required |-> TRUE,
          default |-> NoneV, accepted |-> NoAccepted]

\* The mutable part of a CliArgument.
ArgState(values, use_default, config_default) ==
    [values |-> values, use_default |-> use_default, config_default |-> config_default]

\* shlex.split of a line of the model: the words of the line.
Words(line) ==
    IF line = "" THEN <<>>
    ELSE IF line = "file dict" THEN <<"file", "dict">>
    ELSE <<line>>

\* CliArgument._parse_raw_input
_parse_raw_input(flag, raw_input) ==
    IF raw_input = "" THEN <<>>
    ELSE IF ArgDef(flag).expect = "one" THEN <<raw_input>>
    ELSE Words(raw_input)

\* CliArgument._invalid_raw_values
_invalid_raw_values(flag, raw_values) ==
    IF ArgDef(flag).accepted = NoAccepted THEN <<>>
    ELSE SelectSeq(raw_values, LAMBDA v : v \notin ArgDef(flag).accepted)

\* CliArgument._parse_bool_value: [ok, v]; a word that is neither yes nor no
\* fails in the constructor of the request it tries to raise (TypeError).
_parse_bool_value(value) ==
    IF value \in {"y", "yes", "true", "Y", "Yes", "True"} THEN [ok |-> TRUE, v |-> "True"]
    ELSE IF value \in {"n", "no", "false", "N", "No", "False"} THEN [ok |-> TRUE, v |-> "False"]
    ELSE [ok |-> FALSE, v |-> "TypeError"]

\* CliArgument._parse_raw_value: the "replace" type turns "-" into "_",
\* which leaves the words of the model as they are.
_parse_raw_value(flag, raw_value) ==
    IF ArgDef(flag).type = "bool" THEN _parse_bool_value(raw_value)
    ELSE IF ArgDef(flag).type = "replace"
    \* lambda p: p.replace("-", "_")
    THEN [ok |-> TRUE, v |-> IF raw_value = "a-b" THEN "a_b" ELSE raw_value]
    ELSE IF ArgDef(flag).type = "AppPath"
    \* AppPath(path): the path is to match ^(dir:|file:)(.*)$
    THEN IF raw_value \in {"file:x", "dir:x"} THEN [ok |-> TRUE, v |-> raw_value]
         ELSE [ok |-> FALSE, v |-> "AppPathError"]
    ELSE [ok |-> TRUE, v |-> raw_value]

\* CliArgument._validate_raw_values: [k, values] with k "ok", or the request
\* ("Invalid", "Missing") or the error ("TypeError", "AppPathError") that the
\* first value to fail its conversion raises.
\* A validation with a request kind of its own for too many values.
_validate_raw_values_too_many(flag, raw_values) ==
    LET d == ArgDef(flag)
        filled == IF Len(raw_values) = 0 /\ d.type = "bool" THEN <<"y">> ELSE raw_values
        parsed == [i \in 1..Len(filled) |-> _parse_raw_value(flag, filled[i])]
    IN IF d.expect = "one" /\ Len(raw_values) > 1 THEN [k |-> "TooMany", values |-> <<>>]
       ELSE IF Len(raw_values) = 0 /\ d.type # "bool" /\ d.required /\ d.default = NoneV
            THEN [k |-> "Missing", values |-> <<>>]
       ELSE IF Len(raw_values) > 0 /\ Len(_invalid_raw_values(flag, raw_values)) > 0
            THEN [k |-> "Invalid", values |-> <<>>]
       ELSE IF \E i \in 1..Len(parsed) : ~parsed[i].ok
            THEN [k |-> parsed[CHOOSE i \in 1..Len(parsed) :
                                   ~parsed[i].ok /\ \A j \in 1..(i - 1) : parsed[j].ok].v,
                  values |-> <<>>]
       ELSE [k |-> "ok", values |-> [i \in 1..Len(parsed) |-> parsed[i].v]]

\* A validation with no check of the arity.
_validate_raw_values_any(flag, raw_values) ==
    LET d == ArgDef(flag)
        filled == IF Len(raw_values) = 0 /\ d.type = "bool" THEN <<"y">> ELSE raw_values
        parsed == [i \in 1..Len(filled) |-> _parse_raw_value(flag, filled[i])]
    IN IF Len(raw_values) = 0 /\ d.type # "bool" /\ d.required /\ d.default = NoneV
       THEN [k |-> "Missing", values |-> <<>>]
       ELSE IF Len(raw_values) > 0 /\ Len(_invalid_raw_values(flag, raw_values)) > 0
            THEN [k |-> "Invalid", values |-> <<>>]
       ELSE IF \E i \in 1..Len(parsed) : ~parsed[i].ok
            THEN [k |-> parsed[CHOOSE i \in 1..Len(parsed) :
                                   ~parsed[i].ok /\ \A j \in 1..(i - 1) : parsed[j].ok].v,
                  values |-> <<>>]
       ELSE [k |-> "ok", values |-> [i \in 1..Len(parsed) |-> parsed[i].v]]

_validate_raw_values(flag, raw_values) ==
    LET d == ArgDef(flag)
        filled == IF Len(raw_values) = 0 /\ d.type = "bool" THEN <<"y">> ELSE raw_values
        parsed == [i \in 1..Len(filled) |-> _parse_raw_value(flag, filled[i])]
    IN IF d.expect = "one" /\ Len(raw_values) > 1 THEN [k |-> "Invalid", values |-> <<>>]
       ELSE IF Len(raw_values) = 0 /\ d.type # "bool" /\ d.required /\ d.default = NoneV
            THEN [k |-> "Missing", values |-> <<>>]
       ELSE IF Len(raw_values) > 0 /\ Len(_invalid_raw_values(flag, raw_values)) > 0
            THEN [k |-> "Invalid", values |-> <<>>]
       ELSE IF \E i \in 1..Len(parsed) : ~parsed[i].ok
            THEN [k |-> parsed[CHOOSE i \in 1..Len(parsed) :
                                   ~parsed[i].ok /\ \A j \in 1..(i - 1) : parsed[j].ok].v,
                  values |-> <<>>]
       ELSE [k |-> "ok", values |-> [i \in 1..Len(parsed) |-> parsed[i].v]]

\* CliArgument._reset
_reset(a) == [a EXCEPT !.values = <<>>, !.use_default = FALSE]

\* CliArgument._get_value
_get_value(flag, a) ==
    IF a.use_default
    THEN IF a.config_default # NoneV THEN a.config_default ELSE ArgDef(flag).default
    ELSE IF a.values = <<>> THEN NoneV
    ELSE IF ArgDef(flag).expect = "one" THEN V1(a.values[1])
    ELSE VN(a.values)

\* A parser and its terminal: the arguments' mutable parts, _raw_flags, the
\* lines still to come on standard input, and what the prompters did (g):
\* input() calls in all, the most by one prompter, and the first request
\* raised for the argument asked for.
CliState(args, raw, stdin) ==
    [args |-> args, raw |-> raw, stdin |-> stdin,
     g |-> [reads |-> 0, maxReads |-> 0, first |-> "none"]]

\* CLiPrompter(): requests made, and (history) lines read and lines
\* rejected through it.
NewPrompter == [requests |-> 0, reads |-> 0, rejected |-> 0]

Raise(st, p, exc) == [st |-> st, p |-> p, out |-> [k |-> "raise", v |-> V1(exc)]]
Return(st, p, flag) ==
    [st |-> st, p |-> p, out |-> [k |-> "ret", v |-> _get_value(flag, st.args[flag])]]

\* The first request raised for the argument the caller asked for.
Note(st, depth, kind) ==
    IF depth = 0 /\ st.g.first = "none" THEN [st EXCEPT !.g.first = kind] ELSE st

Max(a, b) == IF a > b THEN a ELSE b

\* Variant: one more attempt.
exhausted_late(requests) == requests > MaxRequests + 1

\* CLiPrompter.request_value: if self.requests > 3
exhausted(requests) == requests > MaxRequests

RECURSIVE get_arg(_, _, _)
RECURSIVE get_arg_value(_, _, _, _, _)
RECURSIVE solve(_, _, _, _, _)
RECURSIVE confirm_solve(_, _, _, _)
RECURSIVE request_value(_, _, _, _, _)

\* Variant: an affirmed default is returned and not pinned.
request_value_unpinned(st, flag, kind, p, depth) ==
    LET p1 == [p EXCEPT !.requests = @ + 1]
        line == IF st.stdin = <<>> THEN "" ELSE Head(st.stdin)
        p2 == [p1 EXCEPT !.reads = @ + 1]
        st1 == [st EXCEPT !.stdin = IF @ = <<>> THEN @ ELSE Tail(@),
                          !.g.reads = @ + 1,
                          !.g.maxReads = Max(@, p2.reads)]
        v == _validate_raw_values(flag, _parse_raw_input(flag, line))
    IN IF exhausted(p1.requests) THEN Raise(st, p1, "CliHelpRequest")
       ELSE IF kind = "Confirm" /\ line = ""
            THEN [Return([st1 EXCEPT !.args[flag].use_default = TRUE], p2, flag)
                     EXCEPT !.st = st1]
       ELSE IF v.k = "ok"
            THEN Return([st1 EXCEPT !.args[flag].values = v.values], p2, flag)
       ELSE IF v.k \in {"TypeError", "AppPathError"} THEN Raise(st1, p2, v.k)
       ELSE solve(st1, flag, v.k, [p2 EXCEPT !.rejected = @ + 1], depth)

\* CLiPrompter.request_value for the request `kind` of argument `flag`.
request_value(st, flag, kind, p, depth) ==
    LET p1 == [p EXCEPT !.requests = @ + 1]
        \* input(): the next line; at end of input, the empty string.
        line == IF st.stdin = <<>> THEN "" ELSE Head(st.stdin)
        p2 == [p1 EXCEPT !.reads = @ + 1]
        st1 == [st EXCEPT !.stdin = IF @ = <<>> THEN @ ELSE Tail(@),
                          !.g.reads = @ + 1,
                          !.g.maxReads = Max(@, p2.reads)]
        v == _validate_raw_values(flag, _parse_raw_input(flag, line))
    IN IF exhausted(p1.requests) THEN Raise(st, p1, "CliHelpRequest")
       ELSE IF kind = "Confirm" /\ line = ""
            THEN Return([st1 EXCEPT !.args[flag].use_default = TRUE], p2, flag)
       ELSE IF v.k = "ok"
            THEN Return([st1 EXCEPT !.args[flag].values = v.values], p2, flag)
       ELSE IF v.k \in {"TypeError", "AppPathError"} THEN Raise(st1, p2, v.k)
       ELSE solve(st1, flag, v.k, [p2 EXCEPT !.rejected = @ + 1], depth)

\* Variant: the request goes to the prompter whatever --silent says.
solve_prompts(st, flag, kind, p, depth) ==
    request_value([st EXCEPT !.args[flag] = _reset(@)], flag, kind, p, depth)

\* CliArgumentRequest.solve(prompter)
solve(st, flag, kind, p, depth) ==
    LET s == get_arg(st, "--silent", depth + 1)
    IN IF s.out.k = "raise" THEN [s EXCEPT !.p = p]
       ELSE IF Truthy(s.out.v) THEN Raise(s.st, p, "CliError")
       ELSE request_value([s.st EXCEPT !.args[flag] = _reset(@)], flag, kind, p, depth)

\* Variant: a default taken under auto-confirm counts as a request.
confirm_solve_counts(st, flag, p, depth) ==
    LET a == get_arg(st, "--auto-confirm", depth + 1)
    IN IF a.out.k = "raise" THEN [a EXCEPT !.p = p]
       ELSE IF Truthy(a.out.v)
            THEN Return([a.st EXCEPT !.args[flag].use_default = TRUE],
                        [p EXCEPT !.requests = @ + 1], flag)
       ELSE solve(a.st, flag, "Confirm", p, depth)

\* CliConfirmRequest.solve(prompter)
confirm_solve(st, flag, p, depth) ==
    LET a == get_arg(st, "--auto-confirm", depth + 1)
    IN IF a.out.k = "raise" THEN [a EXCEPT !.p = p]
       ELSE IF Truthy(a.out.v)
            THEN Return([a.st EXCEPT !.args[flag].use_default = TRUE], p, flag)
       ELSE solve(a.st, flag, "Confirm", p, depth)

\* CliArgumentParser.get_arg, lines 607-635: after the supplied flag, if any,
\* was consumed.
get_arg_value(st, flag, was_provided, p, depth) ==
    LET value == _get_value(flag, st.args[flag])
        provided == was_provided \/ value # NoneV
        pinned == [st EXCEPT !.args[flag].use_default = TRUE]
    IN IF provided /\ value = NoneV
       THEN confirm_solve(Note(st, depth, "Confirm"), flag, p, depth)
       ELSE IF ~provided /\ Truthy(st.args[flag].config_default)
       THEN confirm_solve(Note(st, depth, "Confirm"), flag, p, depth)
       ELSE IF ~provided
       THEN IF ArgDef(flag).required /\ ArgDef(flag).default = NoneV
            THEN solve(Note(pinned, depth, "Missing"), flag, "Missing", p, depth)
            ELSE Return(pinned, p, flag)
       ELSE Return(st, p, flag)

\* CliArgumentParser.get_arg(flag): [st, p, out].  depth counts the frames
\* of get_arg below this one.
get_arg(st, flag, depth) ==
    IF depth > MaxDepth THEN Raise(st, NewPrompter, "RecursionError")
    ELSE IF flag \notin DOMAIN st.args THEN Raise(st, NewPrompter, "CliError")
    ELSE IF st.args[flag].use_default THEN Return(st, NewPrompter, flag)
    ELSE IF flag \notin DOMAIN st.raw
         THEN get_arg_value(st, flag, FALSE, NewPrompter, depth)
    ELSE LET v == _validate_raw_values(flag, st.raw[flag])
             st1 == [st EXCEPT !.raw = [f \in DOMAIN @ \ {flag} |-> @[f]]]
             r == IF v.k = "ok"
                  THEN [st |-> [st1 EXCEPT !.args[flag].values = v.values],
                        p |-> NewPrompter, out |-> [k |-> "ret", v |-> NoneV]]
                  ELSE IF v.k \in {"TypeError", "AppPathError"}
                  THEN Raise(st1, NewPrompter, v.k)
                  ELSE solve(Note(st1, depth, v.k), flag, v.k, NewPrompter, depth)
         IN IF r.out.k = "raise" THEN r
            ELSE get_arg_value(r.st, flag, TRUE, r.p, depth)

\* Command-line tokens of the model, and what str.startswith, len and
\* slicing say of them.
LongTokens == {"--silent", "--auto-confirm", "--reload", "--names", "--bogus"}
ShortTokens == {"-s", "-a", "-r", "-n", "-z"}
CombinedTokens == {"-sa"}
ValueTokens == {"y", "n", "file", "zzz"}
StartsWithDash(t) == t \in LongTokens \cup ShortTokens \cup CombinedTokens
StartsWithDashDash(t) == t \in LongTokens
LongerThanTwo(t) == t \notin ShortTokens \cup {"y", "n"}
\* "-" + c for every character c of t[1:].
SingleShorts(t) ==
    IF t = "-sa" THEN <<"-s", "-a">>
    ELSE IF t = "file" THEN <<"-i", "-l", "-e">>
    ELSE IF t = "zzz" THEN <<"-z", "-z">>
    ELSE IF t = "a-b" THEN <<"--", "-b">>
    ELSE <<>>

\* CliArgumentParser._short_cli_args_mapping
_short_cli_args_mapping ==
    [s \in {"-s", "-a", "-r", "-n"} |->
        IF s = "-s" THEN "--silent" ELSE IF s = "-a" THEN "--auto-confirm"
        ELSE IF s = "-r" THEN "--reload" ELSE "--names"]

Flag(name, values) == [name |-> name, values |-> values]

\* A capture that stops at long flags only.
RECURSIVE TakeValues_to_long(_)
TakeValues_to_long(tokens) ==
    IF tokens = <<>> \/ StartsWithDashDash(Head(tokens)) THEN <<>>
    ELSE <<Head(tokens)>> \o TakeValues_to_long(Tail(tokens))

\* itertools.takewhile(lambda x: not x.startswith("-"), tokens)
RECURSIVE TakeValues(_)
TakeValues(tokens) ==
    IF tokens = <<>> \/ StartsWithDash(Head(tokens)) THEN <<>>
    ELSE <<Head(tokens)>> \o TakeValues(Tail(tokens))

\* parse_flags, consume_flag loop: the (flag, values) pairs in order.
RECURSIVE ConsumeFlags(_)
ConsumeFlags(tokens) ==
    IF tokens = <<>> THEN <<>>
    ELSE LET values == TakeValues(Tail(tokens))
         IN <<Flag(Head(tokens), values)>>
            \o ConsumeFlags(SubSeq(tokens, Len(values) + 2, Len(tokens)))

\* A registration of combined shorts that inserts nothing.
InsertShorts_skip(singles, short_flags) == short_flags

\* parse_flags: the single shorts of the combined short flags, each inserted
\* at the front of short_flags.
RECURSIVE InsertShorts(_, _)
InsertShorts(singles, short_flags) ==
    IF singles = <<>> THEN short_flags
    ELSE InsertShorts(Tail(singles), <<Flag(Head(singles), <<>>)>> \o short_flags)

RECURSIVE RegisterCombined(_, _)
RegisterCombined(combined, short_flags) ==
    IF combined = <<>> THEN short_flags
    ELSE RegisterCombined(Tail(combined),
                          InsertShorts(SingleShorts(Head(combined).name), short_flags))

\* list.remove: without the first element equal to x.
RECURSIVE Remove(_, _)
Remove(s, x) ==
    IF s = <<>> THEN <<>>
    ELSE IF Head(s) = x THEN Tail(s)
    ELSE <<Head(s)>> \o Remove(Tail(s), x)

\* parse_flags: short flags rebuilt with their long names; [ok, flags].
RECURSIVE RebuildShorts(_, _)
RebuildShorts(short_flags, flags) ==
    IF short_flags = <<>> THEN [ok |-> TRUE, flags |-> flags]
    ELSE LET f == Head(short_flags)
         IN IF f.name \notin DOMAIN _short_cli_args_mapping
            THEN [ok |-> FALSE, flags |-> flags]
            ELSE RebuildShorts(Tail(short_flags),
                               Remove(flags, f)
                               \o <<Flag(_short_cli_args_mapping[f.name], f.values)>>)

\* dict comprehension over the pairs: the last pair of a flag wins.
RawFlags(flags) ==
    [n \in {flags[i].name : i \in 1..Len(flags)} |->
        flags[CHOOSE i \in 1..Len(flags) :
                  flags[i].name = n /\ \A j \in (i + 1)..Len(flags) : flags[j].name # n].values]

\* CliArgumentParser.parse_flags(args): [ok, raw]; not ok is a CliError.
parse_flags(args) ==
    LET flags == ConsumeFlags(args)
        shorts == SelectSeq(flags, LAMBDA f : ~StartsWithDashDash(f.name))
        combined == SelectSeq(shorts, LAMBDA f : LongerThanTwo(f.name))
        singles == SelectSeq(shorts, LAMBDA f : ~LongerThanTwo(f.name))
        rebuilt == RebuildShorts(RegisterCombined(combined, singles), flags)
    IN IF \E i \in 1..Len(combined) : Len(combined[i].values) > 0
       THEN [ok |-> FALSE, raw |-> <<>>]
       ELSE IF ~rebuilt.ok THEN [ok |-> FALSE, raw |-> <<>>]
       ELSE [ok |-> TRUE, raw |-> RawFlags(rebuilt.flags)]

\* Variant: the pending command-line tokens of the flag are kept.
reset_arg_keep_raw(args, raw, flag) ==
    IF flag \notin DOMAIN args THEN [ok |-> FALSE, args |-> args, raw |-> raw]
    ELSE [ok |-> TRUE, args |-> [args EXCEPT ![flag] = _reset(@)], raw |-> raw]

\* CliArgumentParser.reset_arg(flag): [ok, args, raw]
reset_arg(args, raw, flag) ==
    IF flag \notin DOMAIN args THEN [ok |-> FALSE, args |-> args, raw |-> raw]
    ELSE [ok |-> TRUE, args |-> [args EXCEPT ![flag] = _reset(@)],
          raw |-> [f \in DOMAIN raw \ {flag} |-> raw[f]]]

\* CliModule.execute(module_args) on the parser c, with `stdin` the lines the
\* terminal will give: [out, args, raw, exhausted, ran].  The built-in --help
\* and --print-args are not supplied; `blank` says --blank was; run is
\* ConfigModule.run over the arguments of the model, and `event` is what
\* happens in it: nothing, a KeyboardInterrupt as it starts, or an error of
\* its own once its arguments are resolved.  A CliHelpRequest, which is what
\* a prompter out of attempts raises, ends in the help branch, which
\* returns 0; the finally clause leaves the parser alone.
execute(c, argv, stdin, blank, event) ==
    LET fresh == [f \in Flags |-> _reset(c.args[f])]
        cleared == [f \in Flags |-> IF blank THEN [fresh[f] EXCEPT !.config_default = NoneV]
                                    ELSE fresh[f]]
        raised(exc, args, raw) ==
            [out |-> IF exc = "CliHelpRequest" THEN [k |-> "ret", exc |-> "none", result |-> 0]
                     ELSE [k |-> "raise", exc |-> exc, result |-> 0],
             args |-> args, raw |-> raw, ran |-> FALSE, exhausted |-> exc = "CliHelpRequest"]
        run(last_get) ==
            IF last_get.out.k = "raise"
            THEN raised(last_get.out.v.v[1], last_get.st.args, last_get.st.raw)
            ELSE IF event = "error" THEN raised("ConfigError", last_get.st.args, last_get.st.raw)
            ELSE [out |-> [k |-> "ret", exc |-> "none", result |-> 0],
                  args |-> last_get.st.args, raw |-> last_get.st.raw, ran |-> TRUE,
                  exhausted |-> FALSE]
        resolved(names) ==
            IF names.out.k = "ret" /\ Truthy(names.out.v)
            THEN CHOOSE r \in {run(to_reload) :
                     to_reload \in {get_arg(names.st, "--reload", 0)}} : TRUE
            ELSE run(names)
        parsed(flags) ==
            IF ~flags.ok THEN raised("CliError", fresh, c.raw)
            ELSE IF event = "interrupt" THEN raised("KeyboardInterrupt", cleared, flags.raw)
            ELSE CHOOSE r \in {resolved(names) :
                     names \in {get_arg(CliState(cleared, flags.raw, stdin), "--names", 0)}} : TRUE
    IN CHOOSE r \in {parsed(flags) : flags \in {parse_flags(argv)}} : TRUE

\* main(): what sys.exit receives.  `result or 0` for the module's result,
\* and 1 after handle_error for whatever was raised.
main(out) == IF out.k = "raise" THEN 1 ELSE out.result

\* ------------------------------------------------------------ registration
\* An argument definition as a module passes it to add_args; the short flag
\* is "None" when none is given.
CliArgument(long, short, type) == [long |-> long, short |-> short, type |-> type]

\* re.search(r"^-[a-zA-Z]$", short), over the short flags of the model.
ShortFormat(short) == short \in {"-p", "-b", "-a", "-h", "-s", "-n", "-o"}

\* argument.long[2:], the long flag without its two dashes.
LongName(long) ==
    CASE long = "--print-args" -> "print-args" [] long = "--blank" -> "blank"
      [] long = "--auto-confirm" -> "auto-confirm" [] long = "--help" -> "help"
      [] long = "--silent" -> "silent" [] long = "--names" -> "names"
      [] long = "--out" -> "out"

\* A parser with no definition yet; print_accepted is what registrations
\* append to the accepted values of --print-args.
NewParser == [cli_args |-> <<>>, short_map |-> <<>>, print_accepted |-> <<>>]

\* _add_arg: the definition is stored under its long flag and announced to
\* --print-args first; then the short flag is checked and mapped; _finalize
\* runs last, and not at all when the short flag was refused.
_add_arg(pr, argument) ==
    LET stored(final) == [l \in DOMAIN pr.cli_args \cup {argument.long} |->
                            IF l = argument.long
                            THEN [def |-> argument, final |-> final]
                            ELSE pr.cli_args[l]]
        announced == Append(pr.print_accepted, LongName(argument.long))
    IN IF argument.short = "None"
       THEN [raised |-> FALSE,
             parser |-> [pr EXCEPT !.cli_args = stored(TRUE),
                                   !.print_accepted = announced]]
       ELSE IF argument.short \in DOMAIN pr.short_map \/ ~ShortFormat(argument.short)
       THEN [raised |-> TRUE,
             parser |-> [pr EXCEPT !.cli_args = stored(FALSE),
                                   !.print_accepted = announced]]
       ELSE [raised |-> FALSE,
             parser |-> [cli_args |-> stored(TRUE),
                         short_map |-> [h \in DOMAIN pr.short_map \cup {argument.short} |->
                                          IF h = argument.short THEN argument.long
                                          ELSE pr.short_map[h]],
                         print_accepted |-> announced]]

\* add_args: the definitions one after the other.
RECURSIVE add_args(_, _)
add_args(pr, arguments) ==
    IF arguments = <<>> THEN pr
    ELSE add_args(_add_arg(pr, Head(arguments)).parser, Tail(arguments))

\* CliArgumentParser.__init__: the built-in definitions.
BuiltinArgs ==
    <<CliArgument("--print-args", "-p", "str"), CliArgument("--blank", "-b", "bool"),
      CliArgument("--auto-confirm", "-a", "bool"), CliArgument("--help", "-h", "bool"),
      CliArgument("--silent", "-s", "bool")>>

CliArgumentParser_init == add_args(NewParser, BuiltinArgs)

\* ------------------------------------------------------------ Logger markup
\* A string is the sequence of its symbols: the characters "/" and ";", the
\* names of tags and the letters of a text each taken whole, and an ANSI
\* escape sequence as one symbol.
_ANSI_MARK == <<"/", ";">>
_S_END_MARK == <<";", "/">>

\* The tags of the model: keys of _ANSI_CODES and of _s_keys_matches.
_ANSI_CODES == {"cr"}
_s_keys_matches == {"__kraken", "_check", "_repeat"}

\* str.find: the first position of sub in s, 0 when it is not there.
Find(s, sub) ==
    LET at == {i \in 1..(Len(s) - Len(sub) + 1) : SubSeq(s, i, i + Len(sub) - 1) = sub}
    IN IF at = {} THEN 0 ELSE CHOOSE i \in at : \A j \in at : i <= j

\* s[m - 1 : n]: a slice stops where the string does.
Slice(s, m, n) == SubSeq(s, m, IF n > Len(s) THEN Len(s) ELSE n)

\* len(s) in characters: a name counts for its letters.
Chars(s) ==
    Len(s) + 7 * Cardinality({i \in DOMAIN s : s[i] = "__kraken"})
           + 5 * Cardinality({i \in DOMAIN s : s[i] = "_check"})
           + 6 * Cardinality({i \in DOMAIN s : s[i] = "_repeat"})
           + Cardinality({i \in DOMAIN s : s[i] \in {"cr", "--", "20"}})

\* test_str[0:max_lookahead], max_lookahead being 14 characters: the symbols
\* that fit, and "_" for the piece of a name that the window cuts.
Window(test_str) ==
    LET head == Slice(test_str, 1, 14)
        cut(n) == IF n = Len(test_str) \/ Chars(SubSeq(head, 1, n)) = 14
                  THEN SubSeq(head, 1, n)
                  ELSE Append(SubSeq(head, 1, n), "_")
    IN CHOOSE window \in {cut(n) : n \in {k \in 0..Len(head) :
                             /\ Chars(SubSeq(head, 1, k)) <= 14
                             /\ k < Len(head) => Chars(SubSeq(head, 1, k + 1)) > 14}} : TRUE

\* int(s) for the counts of the model.
int(s) == IF s = "20" THEN 20 ELSE IF s = "2" THEN 2 ELSE 0

\* The _repeat special, lambda *args: args[0] * max(1, int(args[1])), for
\* the arguments "c;n" of a character and a count.
_repeat(lookahead) == [i \in 1..Max(1, int(lookahead[3])) |-> lookahead[1]]

\* Variant: the kraken expands to its head alone.
_specials_tame(tag, lookahead) ==
    IF tag = "__kraken" THEN <<"__kraken">>
    ELSE IF tag = "_repeat" THEN _repeat(lookahead)
    ELSE IF lookahead = <<>> \/ lookahead[1] = ";" THEN <<"check">>
    ELSE _ANSI_MARK \o lookahead \o <<"/", "check", "/", ";">>

\* _specials[...](*args) with args = lookahead.split(";"): the kraken
\* expands to two krakens, the others go through _enclose.
_specials(tag, lookahead) ==
    IF tag = "__kraken"
    THEN <<"/", ";", "__kraken", "/", "--", ";", "/", ";", "__kraken", "/", "--", ";", "/", ";", "/">>
    ELSE IF tag = "_repeat" THEN _repeat(lookahead)
    ELSE IF lookahead = <<>> \/ lookahead[1] = ";" THEN <<"check">>
    ELSE _ANSI_MARK \o lookahead \o <<"/", "check", "/", ";">>

\* _detect_ansi_pattern(string), for a string that starts with _ANSI_MARK:
\* [ok, pattern, text, tag], pattern being the length of the pattern found;
\* not ok is a SyntaxError.
_detect_ansi_pattern(string) ==
    LET test_str == Slice(string, 3, Len(string))
        hit == test_str # <<>> /\ test_str[1] \in _s_keys_matches \cup _ANSI_CODES
        closed == hit /\ Len(test_str) >= 2 /\ test_str[2] = "/"
        rest == Slice(test_str, 3, Len(test_str))
        end == Find(rest, _S_END_MARK)
        found(pattern, text) ==
            [ok |-> TRUE, pattern |-> pattern, text |-> text,
             tag |-> IF closed THEN test_str[1] ELSE "none"]
        reset == found(2, <<"ESC[0m">>)
        \* the combinations, lookahead being the window up to its first "/":
        \* the first tag that is no code is a reset; a code ends the search
        \* when the look-ahead ends with it
        combined(lookahead) ==
            IF lookahead = <<>> \/ lookahead[1] \notin _ANSI_CODES
               \/ (Len(lookahead) > 1 /\ lookahead[2] # ";")
            THEN reset
            ELSE IF lookahead[Len(lookahead)] \in _ANSI_CODES
            THEN found(2 + Len(lookahead) + 1, <<"ESC[31m">>)
            ELSE reset
        detected(window) ==
            IF closed /\ test_str[1] \in _s_keys_matches
            THEN IF end = 0 THEN [ok |-> FALSE, pattern |-> 0, text |-> <<>>, tag |-> "none"]
                 ELSE found(4 + (end - 1) + 2, _specials(test_str[1], Slice(rest, 1, end - 1)))
            ELSE IF closed THEN found(4, <<"ESC[31m">>)
            ELSE IF hit /\ Find(window, <<";">>) = 0
            THEN [ok |-> FALSE, pattern |-> 0, text |-> <<>>, tag |-> "none"]
            ELSE IF Find(window, <<"/">>) = 0 THEN combined(window)
            ELSE combined(Slice(window, 1, Find(window, <<"/">>) - 1))
    IN CHOOSE ansi \in {detected(window) : window \in {Window(test_str)}} : TRUE

\* What stands for the 10000 of security_limit = len(remaining) + 10000.
SecurityMargin == 3

\* Logger.write(arg) as it enters _write: the string still to render, the
\* iterations made, the stream, and how the call ended ("writing" until it
\* has); krakens counts the expansions of the __kraken special.  The "ansi"
\* setting is on, as it is by default.
NewWrite(arg) ==
    [arg |-> arg, remaining |-> arg, loops |-> 0, stream |-> <<>>,
     flushed |-> 0, status |-> "writing", krakens |-> 0]

\* One iteration of the while loop of Logger._write; an exception leaves
\* through the finally clause of write, which flushes the stream.
_write(w) ==
    LET loops == w.loops + 1
        raised(exc) == [w EXCEPT !.loops = loops, !.status = exc, !.flushed = Len(w.stream)]
        expanded(ansi) ==
            IF ~ansi.ok THEN raised("SyntaxError")
            ELSE IF loops > Len(w.arg) + SecurityMargin
            THEN [raised("KrakenError") EXCEPT
                     !.remaining = ansi.text \o Slice(w.remaining, ansi.pattern + 1, Len(w.remaining))]
            ELSE [w EXCEPT !.loops = loops,
                           !.remaining = ansi.text \o Slice(@, ansi.pattern + 1, Len(@)),
                           !.krakens = IF ansi.tag = "__kraken" THEN @ + 1 ELSE @]
    IN IF Slice(w.remaining, 1, 2) = _ANSI_MARK
       THEN CHOOSE r \in {expanded(ansi) : ansi \in {_detect_ansi_pattern(w.remaining)}} : TRUE
       ELSE [w EXCEPT !.loops = loops, !.remaining = Tail(@),
                      !.stream = Append(@, Head(w.remaining))]

\* ------------------------------------------------------------ DataPrinter
\* A text is the sequence of its characters; "ESC" stands for one ANSI
\* escape sequence.  A dict to print is the sequence of its values in
\* insertion order, the i-th key being the one-character string of i; a
\* value is [t |-> "s", v |-> n], the string of n characters, or
\* [t |-> "m", v |-> d], a dict.
Key(i) == <<ToString(i)>>
Text(n) == [i \in 1..n |-> "v"]
StrV(n) == [t |-> "s", v |-> n]
DictV(d) == [t |-> "m", v |-> d]

\* A Logger as a write goes: the stream, the _indents_buffer (the text of the
\* current line) and the _indents stack.
NewLogger == [stream |-> <<>>, buf |-> <<>>, indents |-> << <<>> >>]

\* Logger._write of a string whose tags are resolved: an escape sequence
\* goes to the stream only, a character to the stream and the buffer.
_write_plain(L, text) ==
    [L EXCEPT !.stream = @ \o text,
              !.buf = @ \o SelectSeq(text, LAMBDA ch : ch # "ESC")]

_indent(L) == [L EXCEPT !.indents = Append(@, L.buf)]

_dindent(L) == [L EXCEPT !.indents = SubSeq(@, 1, Len(@) - 1)]

_new_line(L) ==
    LET indents_char == L.indents[Len(L.indents)]
    IN [L EXCEPT !.stream = @ \o <<"\n">> \o
                     (IF Len(L.indents) > 1 THEN [i \in 1..Len(indents_char) |-> " "] ELSE <<>>),
                 !.buf = indents_char]

\* The keyword arguments of a write that the printer reads.
Kwargs(name, max_inline, force_inline, compact, styles) ==
    [name |-> name, max_inline |-> max_inline, force_inline |-> force_inline,
     compact |-> compact, styles |-> styles]

build_simple_style(kw, text) ==
    IF ~kw.styles THEN text ELSE <<"ESC">> \o text \o <<"ESC">>

\* The glyph of the _arrow special: three characters as the source has it.
_arrow == <<"-", "-", ">">>

\* decorate(decoration, type) for a dict; decorate_items is at its default,
\* and the item mark is the arrow special between two spaces.
decorate(kw, decoration, key) ==
    CASE decoration = "start" -> build_simple_style(kw, <<"{">>)
      [] decoration = "end" -> build_simple_style(kw, <<"}">>)
      [] decoration = "comma" -> build_simple_style(kw, <<",">>)
      [] decoration = "item" -> <<" ", "ESC">> \o _arrow \o <<"ESC", "ESC", " ">>
      [] decoration = "key" -> build_simple_style(kw, key \o build_simple_style(kw, <<":">>))

decorate_value(kw, value) == build_simple_style(kw, <<"'">> \o Text(value) \o <<"'">>)

RECURSIVE _write_value(_, _, _)
RECURSIVE _write_items(_, _, _, _, _)

\* The mutant: a dict that fills the budget exactly is not inline.
_default_inline_strict(L, d, kw) ==
    IF kw.name = "inline-checker" THEN TRUE
    ELSE LET logger == _write_value(NewLogger, DictV(d),
                           Kwargs("inline-checker", kw.max_inline, TRUE, kw.compact, FALSE))
             remaining == kw.max_inline - Len(L.indents[Len(L.indents)])
             to_write == Len(logger.stream)
         IN ~(to_write >= remaining)

\* DataPrinter._default_inline: the dict is written to a temporary logger,
\* inline and without styles, and what it wrote is measured against
\* max_inline less the indentation on top of the stack.
_default_inline(L, d, kw) ==
    IF kw.name = "inline-checker" THEN TRUE
    ELSE LET logger == _write_value(NewLogger, DictV(d),
                           Kwargs("inline-checker", kw.max_inline, TRUE, kw.compact, FALSE))
             remaining == kw.max_inline - Len(L.indents[Len(L.indents)])
             to_write == Len(logger.stream)
         IN ~(to_write > remaining)

\* The loop of _write_dict from the i-th entry on.
_write_items(L, d, i, inline, kw) ==
    IF i > Len(d) THEN L
    ELSE LET first == i = 1
             last == i = Len(d)
             inlining == first \/ inline
             lined == IF ~inlining THEN _new_line(L) ELSE L
             marked == IF ~inline /\ ~kw.compact
                       THEN _write_plain(lined, decorate(kw, "item", Key(i))) ELSE lined
             keyed == _write_plain(marked, decorate(kw, "key", Key(i)))
             spaced == IF ~kw.compact THEN _write_plain(keyed, <<" ">>) ELSE keyed
             valued == _write_value(spaced, d[i], kw)
             comma == IF last THEN valued
                      ELSE IF ~kw.compact
                      THEN _write_plain(_write_plain(valued, decorate(kw, "comma", Key(i))), <<" ">>)
                      ELSE _write_plain(valued, decorate(kw, "comma", Key(i)))
         IN _write_items(comma, d, i + 1, inline, kw)

_write_dict(L, d, kw) ==
    LET started == _indent(_write_plain(L, decorate(kw, "start", <<>>)))
        inline == _default_inline(started, d, kw) \/ kw.force_inline
        written == _write_items(started, d, 1, inline, kw)
    IN _dindent(_write_plain(written, decorate(kw, "end", <<>>)))

_write_value(L, v, kw) ==
    IF v.t = "m" THEN _write_dict(L, v.v, kw)
    ELSE _write_plain(L, decorate_value(kw, v.v))

\* Logger.write(prefix, d, data_print = ...) on the default logger: the
\* text it sent to the stream.
write_data(prefix, d, kw) ==
    _write_value(_write_plain(NewLogger, Text(prefix)), DictV(d), kw).stream

\* No dict written yet.
NewData(prefix, d, max_inline, force_inline, compact) ==
    [prefix |-> prefix, d |-> d, max_inline |-> max_inline, force_inline |-> force_inline,
     compact |-> compact, status |-> "called", stream |-> <<>>, lengthened |-> FALSE,
     was_one_line |-> FALSE]

\* ------------------------------------------------------------ asset browser
\* The GUIDs of the model, as a widget hands them over: " g1" is "g1" with
\* white space around it.
GUIDs == {"g1", "g2"}
RawGUIDs == GUIDs \cup {" g1"}
strip(guid) == IF guid = " g1" THEN "g1" ELSE guid

\* How the asset_finder subprocess of _fetch_asset_from_cli ends: it found
\* the asset; it completed and found none; it did not end within the timeout;
\* it failed with a non-zero exit code; it printed what json.loads rejects.
Outcomes == {"found", "none", "timeout", "exit", "garbage"}

\* _fetch_asset_from_cli: asset_info is None unless the asset was found.
_fetch_asset_from_cli(outcome) == outcome = "found"

\* The data manager: guid_history and history_index (as in the source, the
\* index of the first entry is 0), the back link of the browser, the GUID
\* the browser displays and whether it displays links to related GUIDs, the
\* asset cache (per GUID: "none", "asset" or "not_found"); and (history)
\* the GUIDs a completed search did not find, the clicks handled, and the
\* last click with the history before it.
NewUi(cache) ==
    [guid_history |-> <<>>, history_index |-> -1, back_enabled |-> FALSE,
     displayed |-> "none", links |-> FALSE, cache |-> cache, missed |-> {},
     clicks |-> 0,
     click |-> [op |-> "none", guid |-> "none", pre_history |-> <<>>, pre_index |-> -1]]

\* browser_widget.display_not_found(guid) / display_asset_info(guid, info,
\* related_guids): links is whether related_guids is not empty.
display(u, guid, links) == [u EXCEPT !.displayed = guid, !.links = links]

\* Variant: a GUID is always appended at the end of the history.
_add_to_history_append(u, guid) ==
    LET h == Append(u.guid_history, guid)
    IN [u EXCEPT !.guid_history = h, !.history_index = @ + 1,
                 !.back_enabled = u.history_index + 1 > 0]

\* _add_to_history(guid), and set_back_button_enabled at its end.
_add_to_history(u, guid) ==
    LET added ==
            IF u.history_index = Len(u.guid_history) - 1
            THEN [u EXCEPT !.guid_history = Append(@, guid), !.history_index = @ + 1]
            ELSE IF u.history_index < Len(u.guid_history) - 1
            THEN [u EXCEPT !.guid_history =
                               Append(SubSeq(@, 1, u.history_index + 1), guid),
                           !.history_index = @ + 1]
            ELSE [u EXCEPT !.guid_history = <<guid>>, !.history_index = 0]
    IN [added EXCEPT !.back_enabled = added.history_index > 0]

\* What a search by the subprocess leaves in the cache: the asset it found,
\* when its own write of the cache file went through (saved).
searched(u, guid, outcome, saved) ==
    [u EXCEPT !.cache[guid] = IF outcome = "found" /\ saved THEN "asset" ELSE @,
              !.missed = IF outcome = "none" THEN @ \cup {guid} ELSE @]

\* _process_guid_request(guid); outcome, related and saved say how the
\* search goes, if there is one.
_process_guid_request(u, raw_guid, outcome, related, saved) ==
    LET guid == strip(raw_guid)
        s == searched(u, guid, outcome, saved)
    IN IF u.cache[guid] # "none"
       THEN _add_to_history(display(u, guid, FALSE), guid)
       ELSE IF ~_fetch_asset_from_cli(outcome)
       THEN \* set_guid_not_found(guid)
            _add_to_history(display([s EXCEPT !.cache[guid] = "not_found"], guid, FALSE),
                            guid)
       ELSE _add_to_history(display(s, guid, related), guid)

\* _display_guid_from_history(guid)
_display_guid_from_history(u, raw_guid, outcome, related, saved) ==
    LET guid == strip(raw_guid)
        s == searched(u, guid, outcome, saved)
    IN IF u.cache[guid] # "none" THEN display(u, guid, FALSE)
       ELSE IF ~_fetch_asset_from_cli(outcome) THEN display(s, guid, FALSE)
       ELSE display(s, guid, related)

\* _handle_new_guid_search(guid)
_handle_new_guid_search(u, guid, outcome, related, saved) ==
    _process_guid_request([u EXCEPT !.guid_history = <<>>, !.history_index = -1],
                          guid, outcome, related, saved)

\* _handle_related_guid_clicked(guid)
_handle_related_guid_clicked(u, guid, outcome, related, saved) ==
    _process_guid_request(u, guid, outcome, related, saved)

\* handle_back_clicked()
handle_back_clicked(u, outcome, related, saved) ==
    IF u.history_index <= 0 THEN u
    ELSE LET back == [u EXCEPT !.history_index = @ - 1]
             previous_guid == back.guid_history[back.history_index + 1]
             shown == _display_guid_from_history(back, previous_guid, outcome, related, saved)
         IN [shown EXCEPT !.back_enabled = shown.history_index > 0]

\* ------------------------------------------------------------ state
VARIABLES
    configs,    \* src._configs: scope key -> Config, for the created scopes
    files,      \* path -> file
    last,       \* the last store operation (history)
    ops,        \* number of store operations so far
    cli,        \* the module's CliArgumentParser: arguments and _raw_flags
    clast,      \* the last parser operation (history)
    cops        \* number of parser operations so far

VARIABLES
    pargv,      \* the command line handed to a parse
    pres,       \* what the parse made of it, and the last validation (history)
    cliparser,  \* a CliArgumentParser under registration: its definitions
    plast,      \* the last registration on it (history)
    inv,        \* the invocations of the module so far, and the last one (history)
    lg,         \* a Logger.write call: the string, what is left of it, the stream
    dp,         \* a Logger.write call of a dict: the dict, the options, the stream
    ui          \* the asset browser's data manager, its browser and the asset cache

cfgVars == <<configs, files, last, ops>>
cliVars == <<cli, clast, cops>>
vars == <<configs, files, last, ops, cli, clast, cops, cliparser, plast, pargv, pres, inv, lg, dp, ui>>

NoCfg == Cfg("False", NoPath, Null, Null)

\* A call: which operation, on which scope, with which arguments.
Call(op, key, trust, arg) == [op |-> op, key |-> key, trust |-> trust, arg |-> arg]

\* The last store operation: the call, the scope and the files before it,
\* whether it raised, what it returned, and how it follows the call before
\* it: "same" (the identical call), "dump" (a dump of the same scope to its
\* own file that returned), "external" (a file changed under the program) or
\* "other".  An unbinding that follows a binding of the same scope also
\* keeps the scope as it was before the binding.
Entry(call, pre, fsPre, raised, ret) ==
    [call |-> call, pre |-> pre, fsPre |-> fsPre, raised |-> raised, ret |-> ret,
     after |-> IF last.call = call THEN "same"
               ELSE IF last.call = [op |-> "dump", key |-> call.key,
                                    trust |-> "specific", arg |-> Map(EmptyDict)]
                       /\ ~last.raised
                    THEN "dump"
                    ELSE IF last.call.op = "external" THEN "external"
                    ELSE "other",
     was |-> IF call.op = "unbind" /\ last.call.op = "bind" /\ ~last.raised
                /\ last.call.key = call.key
             THEN last.pre ELSE NoCfg]

NoCall == Call("none", <<>>, "none", Null)

\* The parser before any operation, for the last-operation record; prev is
\* the outcome of the get_arg for the same flag right before a get_arg.
NoCliCall ==
    [op |-> "none", flag |-> "none", pre |-> [args |-> <<>>, raw |-> <<>>],
     out |-> [k |-> "ret", v |-> NoneV],
     g |-> [reads |-> 0, maxReads |-> 0, first |-> "none"], p |-> NewPrompter,
     unread |-> 0, prev |-> [k |-> "none", v |-> NoneV]]

\* Parser operations in one behaviour.
MaxCliOps == 2

\* A parser nobody uses, while the store is exercised.
cliIdle ==
    /\ cli = [args |-> [f \in Flags |-> ArgState(<<>>, FALSE, NoneV)], raw |-> <<>>]
    /\ clast = NoCliCall
    /\ cops = 0

\* Registrations in one behaviour.
MaxAdds == 2

NoAdd == [op |-> "none", argument |-> CliArgument("None", "None", "None"),
          pre |-> NewParser, raised |-> FALSE, n |-> 0]

\* A parser nobody registers on, while the store or the command line is
\* exercised.
regIdle == cliparser = CliArgumentParser_init /\ plast = NoAdd

\* No parse yet.
NoParse == [op |-> "none", ok |-> TRUE, raw |-> <<>>, flag |-> "none",
            tokens |-> <<>>, k |-> "none", values |-> <<>>]

\* No command line under study, while other parts are exercised.
parseIdle == pargv = <<>> /\ pres = NoParse

\* Invocations in one behaviour.
MaxRuns == 2

\* No invocation yet; held is what the module's config holds for each flag.
NoRun(held) ==
    [n |-> 0, held |-> held, blank |-> FALSE, event |-> "none",
     out |-> [k |-> "ret", exc |-> "none", result |-> 0], exhausted |-> FALSE,
     ran |-> FALSE, code |-> 0, running |-> FALSE, attached |-> {}]

\* Nothing invoked, while other parts are exercised.
mainIdle == inv = NoRun([f \in Flags |-> NoneV])

\* No write under study, while other parts are exercised.
logIdle == lg = NewWrite(<<>>)

\* No dict under study, while other parts are exercised.
dataIdle == dp = NewData(0, <<>>, 0, FALSE, FALSE)

\* No browser under study, while other parts are exercised.
uiIdle == ui = NewUi([g \in GUIDs |-> "none"])

\* ------------------------------------------------------------ inputs
\* Dicts a caller passes as config_dict: scalars are 1.
Overrides ==
    {Map(EmptyDict), Map(One("a", Scalar(1))),
     Map(One("a", Map(One("y", Scalar(1))))), Map(One("a", List(<<1>>)))}

\* Dicts a scope's subtree of a file may hold: scalars are 2..MaxVal.
FileDicts ==
    {Map(EmptyDict), Map(One("a", Map(One("x", Scalar(MaxVal))))),
     Map(One("a", List(<<1, 2>>))), Map(One("b", Null))}
    \cup {Map(One("a", Scalar(n))) : n \in 2..MaxVal}

\* The module scope's own file: missing, or a JSON object that may also hold
\* a subtree for the nested scope.
ModFiles ==
    {Missing}
    \cup {JsonFile(d) : d \in FileDicts}
    \cup {JsonFile(nest_dict(Map(One("a", Scalar(MaxVal))), LogKey))}

\* The shared file: missing, or a JSON object with subtrees at the scope keys
\* and at the nested scope's path under the module key; its scalars are 0.
GlobalDict(g, m, n) ==
    deep_merge_dicts(<<nest_dict(g, LogKey), nest_dict(m, ModKey),
                       nest_dict(n, ModKey \o LogKey)>>)

GlobalFiles ==
    {Missing,
     JsonFile(GlobalDict(Map(One("a", Scalar(0))),
                         Map(One("a", Map(One("x", Scalar(0))))),
                         Map(One("b", Scalar(0)))))}

cfgInit ==
    /\ files \in {[p \in Paths |-> IF p = GlobalPath THEN g
                                   ELSE IF p = ModPath THEN m ELSE Missing] :
                    g \in GlobalFiles, m \in ModFiles}
    \* the module's scope is created when the module is constructed; the
    \* logger's scope may or may not have been created yet
    /\ \E withLogger \in BOOLEAN :
         configs = [k \in (IF withLogger THEN {ModKey, LogKey} ELSE {ModKey}) |->
                      Config_init(files, k, "file", Map(EmptyDict)).cfg]
    /\ last = [call |-> NoCall, pre |-> NoCfg, fsPre |-> files, raised |-> FALSE,
               ret |-> Null, after |-> "other", was |-> NoCfg]
    /\ ops = 0

\* ------------------------------------------------------------ operations
\* Every store operation counts against the behaviour's budget.
Tick == ops < MaxOps /\ ops' = ops + 1 /\ UNCHANGED <<cliVars, cliparser, plast, pargv, pres, inv, lg, dp, ui>>

Put(key, cfg) == [k \in DOMAIN configs \cup {key} |-> IF k = key THEN cfg ELSE configs[k]]

\* create(key, config_dict, trust): a new scope enters the registry.
Create(key, trust, config_dict) ==
    /\ Tick
    /\ key \notin DOMAIN configs
    /\ \E r \in {Config_init(files, key, trust, config_dict)} :
          /\ configs' = IF r.ok THEN Put(key, r.cfg) ELSE configs
          /\ last' = Entry(Call("create", key, trust, config_dict), NoCfg, files,
                           ~r.ok, Null)
    /\ UNCHANGED files

\* Config.reload(trust, config_dict) on a created scope.
Reload(key, trust, config_dict) ==
    /\ Tick
    /\ key \in DOMAIN configs
    /\ \E r \in {reload(configs[key], files, key, trust, config_dict)} :
          /\ configs' = Put(key, r.cfg)
          /\ last' = Entry(Call("reload", key, trust, config_dict), configs[key],
                           files, ~r.ok, Null)
    /\ UNCHANGED files

\* Config.specify_file_path(new_path, reload)
SpecifyFilePath(key, new_path, do_reload) ==
    /\ Tick
    /\ key \in DOMAIN configs
    /\ \E r \in {specify_file_path(configs[key], files, key, new_path, do_reload)} :
          /\ configs' = Put(key, r.cfg)
          /\ last' = Entry(Call("specify", key, IF do_reload THEN "file" ELSE "none",
                                Map(One(new_path, Null))),
                           configs[key], files, ~r.ok, Null)
    /\ UNCHANGED files

\* reload_for_module(module): every nested scope is bound to the module's
\* backing file, or unbound.
ReloadForModule(module) ==
    /\ Tick
    /\ LogKey \in DOMAIN configs
    /\ module # "None" => <<module>> \in DOMAIN configs
    /\ \E r \in {Config_reload_for_module(configs, files, LogKey, module)} :
          /\ configs' = Put(LogKey, r.cfg)
          /\ last' = Entry(Call(IF module = "None" THEN "unbind" ELSE "bind", LogKey,
                                "file", Map(EmptyDict)),
                           configs[LogKey], files, ~r.ok, Null)
    /\ UNCHANGED files

\* Config.dump(target)
Dump(key, target) ==
    /\ Tick
    /\ key \in DOMAIN configs
    /\ \E r \in {Config_dump(configs, files, key, target)} :
          /\ configs' = r.cfgs
          /\ files' = r.fs
          /\ last' = Entry(Call("dump", key, target, Map(EmptyDict)), configs[key],
                           files, r.raised, Null)

\* Config.get(key, default) with the default left at None or given.
Get(key, subkey, default) ==
    /\ Tick
    /\ key \in DOMAIN configs
    /\ last' = Entry(Call("get", key, "none", [key |-> subkey, default |-> default]),
                     configs[key], files, FALSE,
                     Config_get(configs[key], subkey, default))
    /\ UNCHANGED <<configs, files>>

\* get(key) of the registry.
Lookup(key) ==
    /\ Tick
    /\ \E r \in {get(configs, files, key)} :
          /\ configs' = r.cfgs
          /\ last' = Entry(Call("lookup", key, "none", Map(EmptyDict)),
                           IF key \in DOMAIN configs THEN configs[key] ELSE NoCfg,
                           files, r.raised, Null)
    /\ UNCHANGED files

\* Something outside the program rewrites or removes a file.
ExternalWrite(path, file) ==
    /\ Tick
    /\ files[path] # file
    /\ files' = [files EXCEPT ![path] = file]
    /\ last' = Entry(Call("external", <<path>>, "none", Map(EmptyDict)), NoCfg,
                     files, FALSE, Null)
    /\ UNCHANGED configs

Trusts == {"file", "dict"}
SubKeys == {<<"a", "x">>, <<"b">>, <<"c">>}
\* A default a caller passes to tell an absent key from any stored value.
NotFound == Scalar(0 - 1)

Next ==
    \/ \E trust \in Trusts, d \in Overrides : Create(LogKey, trust, d)
    \/ \E key \in ScopeKeys, trust \in Trusts, d \in Overrides : Reload(key, trust, d)
    \/ \E key \in ScopeKeys, a \in {<<OtherPath, FALSE>>, <<OtherPath, TRUE>>,
                                    <<NoPath, TRUE>>} :
           SpecifyFilePath(key, a[1], a[2])
    \/ \E m \in {"None", ModName} : ReloadForModule(m)
    \/ \E key \in ScopeKeys, target \in {"specific", "merged"} : Dump(key, target)
    \/ \E key \in ScopeKeys, sk \in SubKeys, d \in {Null, NotFound} : Get(key, sk, d)
    \/ \E p \in {GlobalPath, ModPath}, f \in {BadFile, JsonFile(Map(One("b", Null)))} :
           ExternalWrite(p, f)
    \/ \E key \in ScopeKeys : Lookup(key)

Init == cfgInit /\ cliIdle /\ regIdle /\ parseIdle /\ mainIdle /\ logIdle /\ dataIdle /\ uiIdle

Spec == Init /\ [][Next]_vars

\* ------------------------------------------------------------ Cli operations
\* Lines typed at a prompt, and the lines waiting on standard input when an
\* argument is asked for.
Lines == {"", "file", "zzz"}
MaxLines == 4
Stdins == [1..MaxLines -> Lines]

\* Command lines: up to MaxArgs tokens.
MaxArgs == 3
ArgvTokens == {"--silent", "--auto-confirm", "--reload", "--names", "-sa", "file", "zzz"}
Argvs == UNION {[1..n -> ArgvTokens] : n \in 0..MaxArgs}

\* The store stands still while the parser works: the module's scope over
\* absent files.
cfgIdle ==
    /\ files = [p \in Paths |-> Missing]
    /\ configs = [k \in {ModKey} |->
                     Config_init([p \in Paths |-> Missing], k, "file", Map(EmptyDict)).cfg]
    /\ last = [call |-> NoCall, pre |-> NoCfg, fsPre |-> [p \in Paths |-> Missing],
               raised |-> FALSE, ret |-> Null, after |-> "other", was |-> NoCfg]
    /\ ops = 0

\* CliModule.__init__: the arguments registered, each with the default the
\* module's config holds for it, if any; no flags parsed yet.
cliInit ==
    /\ \E sd \in {NoneV, V1("True"), V1("False")}, ad \in {NoneV, V1("True")}, rd \in {NoneV, V1("file")} :
          cli = [args |-> [f \in Flags |->
                              ArgState(<<>>, FALSE,
                                       IF f = "--silent" THEN sd
                                       ELSE IF f = "--auto-confirm" THEN ad
                                       ELSE IF f = "--reload" THEN rd ELSE NoneV)],
                 raw |-> <<>>]
    /\ clast = NoCliCall
    /\ cops = 0

CliTick == cops < MaxCliOps /\ cops' = cops + 1 /\ UNCHANGED <<cfgVars, cliparser, plast, pargv, pres, inv, lg, dp, ui>>

\* CliModule.execute, lines 784-787: every argument reset, then the
\* command line parsed.
ParseFlags(argv) ==
    /\ CliTick
    /\ \E r \in {parse_flags(argv)} :
          /\ cli' = [args |-> [f \in DOMAIN cli.args |-> _reset(cli.args[f])],
                     raw |-> IF r.ok THEN r.raw ELSE cli.raw]
          /\ clast' = [NoCliCall EXCEPT !.op = "parse_flags", !.pre = cli,
                           !.out = IF r.ok THEN [k |-> "ret", v |-> NoneV]
                                   ELSE [k |-> "raise", v |-> V1("CliError")]]

\* CliModule.get_arg(flag), with `stdin` the lines the terminal will give.
GetArg(flag, stdin) ==
    /\ CliTick
    /\ \E r \in {get_arg(CliState(cli.args, cli.raw, stdin), flag, 0)} :
          /\ cli' = [args |-> r.st.args, raw |-> r.st.raw]
          /\ clast' = [op |-> "get_arg", flag |-> flag, pre |-> cli, out |-> r.out,
                       g |-> r.st.g, p |-> r.p, unread |-> Len(r.st.stdin),
                       prev |-> IF clast.op = "get_arg" /\ clast.flag = flag
                                THEN clast.out ELSE NoCliCall.prev]

\* CliModule.reset_arg(flag)
ResetArg(flag) ==
    /\ CliTick
    /\ \E r \in {reset_arg(cli.args, cli.raw, flag)} :
          /\ cli' = [args |-> r.args, raw |-> r.raw]
          /\ clast' = [NoCliCall EXCEPT !.op = "reset_arg", !.flag = flag, !.pre = cli]

CliNext ==
    \/ \E argv \in Argvs : ParseFlags(argv)
    \/ \E flag \in DOMAIN cli.args, stdin \in Stdins : GetArg(flag, stdin)
    \/ \E flag \in DOMAIN cli.args : ResetArg(flag)

InitCli == cfgIdle /\ cliInit /\ regIdle /\ parseIdle /\ mainIdle /\ logIdle /\ dataIdle /\ uiIdle

SpecCli == InitCli /\ [][CliNext]_vars

\* A module with an argument of paths, after CliModule.__init__ and a
\* parse_flags that found --test-data, --silent, both or neither on the
\* command line.
InitType ==
    /\ cfgIdle /\ regIdle /\ parseIdle /\ mainIdle /\ logIdle /\ dataIdle /\ uiIdle
    /\ \E given \in SUBSET {"--test-data", "--silent"},
          paths \in {<<>>, <<"zzz">>, <<"file:x">>, <<"file:x", "zzz">>} :
          cli = [args |-> [f \in {"--silent", "--auto-confirm", "--test-data"} |->
                              ArgState(<<>>, FALSE, NoneV)],
                 raw |-> [f \in given |-> IF f = "--test-data" THEN paths ELSE <<>>]]
    /\ clast = NoCliCall
    /\ cops = 0

SpecType == InitType /\ [][CliNext]_vars

\* ------------------------------------------------------------ registration operations
\* The definitions a module may register: new and already registered long
\* flags, with no short flag, a new one, a taken one or a malformed one.
NewArguments ==
    {CliArgument(l, h, t) : l \in {"--silent", "--help", "--names", "--out"},
                            h \in {"None", "-n", "-o", "-s", "-no"},
                            t \in {"bool", "str"}}

\* add_args(argument) by a module's prepare.
AddArg(argument) ==
    /\ plast.n < MaxAdds
    /\ \E r \in {_add_arg(cliparser, argument)} :
          /\ cliparser' = r.parser
          /\ plast' = [op |-> "add", argument |-> argument, pre |-> cliparser,
                       raised |-> r.raised, n |-> plast.n + 1]
    /\ UNCHANGED <<cfgVars, cliVars, pargv, pres, inv, lg, dp, ui>>

RegNext == \E argument \in NewArguments : AddArg(argument)

InitReg == cfgIdle /\ cliIdle /\ regIdle /\ parseIdle /\ mainIdle /\ logIdle /\ dataIdle /\ uiIdle

SpecReg == InitReg /\ [][RegNext]_vars

\* ------------------------------------------------------------ invocations
\* Command lines and terminal input of an invocation.
MainArgvs == UNION {[1..n -> {"--names", "--reload", "file", "zzz"}] : n \in 0..2}
MainStdins == [1..MaxRequests -> {"", "file"}]

\* main() dispatching to the module: execute(module_args), and the exit code.
Main(argv, stdin, blank, event) ==
    /\ inv.n < MaxRuns
    /\ \E r \in {execute(cli, argv, stdin, blank, event)} :
          /\ cli' = [args |-> r.args, raw |-> r.raw]
          /\ inv' = [n |-> inv.n + 1, held |-> inv.held, blank |-> blank,
                     event |-> event, out |-> r.out, exhausted |-> r.exhausted,
                     ran |-> r.ran, code |-> main(r.out), running |-> FALSE,
                     attached |-> {}]
    /\ UNCHANGED <<cfgVars, clast, cops, cliparser, plast, pargv, pres, lg, dp, ui>>

MainNext ==
    \E argv \in MainArgvs, stdin \in MainStdins, blank \in BOOLEAN,
       event \in {"none", "interrupt", "error"} : Main(argv, stdin, blank, event)

\* CliModule.__init__ has registered the arguments, each with the default
\* the module's config holds for it.
InitMain ==
    /\ cfgIdle /\ cliInit /\ regIdle /\ parseIdle /\ logIdle /\ dataIdle /\ uiIdle
    /\ inv = NoRun([f \in Flags |-> cli.args[f].config_default])

SpecMain == InitMain /\ [][MainNext]_vars

\* ------------------------------------------------------------ execute and the nested scopes
\* A second nested scope, and the executions in one behaviour.
Log2Key == <<"loggers", "w">>
MaxExecs == 1

\* CliModule.execute, lines 782-786: every nested scope is bound to the
\* module and the module's own scope is reloaded; `attached` (history) is
\* the set of scopes that now have the module's backing file.
ExecuteEnter ==
    /\ ~inv.running /\ inv.n < MaxExecs
    /\ \E bound \in {reload_for_module(configs, files, ModName)} :
          /\ configs' = [bound EXCEPT ![ModKey] =
                            reload(@, files, ModKey, "file", Map(EmptyDict)).cfg]
          /\ inv' = [inv EXCEPT !.running = TRUE,
                         !.attached = {k \in DOMAIN bound \ {ModKey} :
                                          bound[k].fpath = bound[ModKey].fpath}]
    /\ UNCHANGED <<files, last, ops, cliVars, cliparser, plast, pargv, pres, lg, dp, ui>>

\* The rest of CliModule.execute: the flags parsed, the arguments resolved
\* and run, the help branch, and the finally clause, which unbinds every
\* nested scope.
ExecuteLeave(argv, stdin, blank, event) ==
    /\ inv.running
    /\ \E r \in {execute(cli, argv, stdin, blank, event)} :
          /\ cli' = [args |-> r.args, raw |-> r.raw]
          /\ inv' = [n |-> inv.n + 1, held |-> inv.held, blank |-> blank,
                     event |-> event, out |-> r.out, exhausted |-> r.exhausted,
                     ran |-> r.ran, code |-> main(r.out), running |-> FALSE,
                     attached |-> inv.attached]
    /\ configs' = reload_for_module(configs, files, "None")
    /\ UNCHANGED <<files, last, ops, clast, cops, cliparser, plast, pargv, pres, lg, dp, ui>>

ExecNext ==
    \/ ExecuteEnter
    \/ \E argv \in MainArgvs, stdin \in MainStdins, blank \in BOOLEAN,
          event \in {"none", "interrupt", "error"} : ExecuteLeave(argv, stdin, blank, event)

\* The module constructed, with none, one or two logger scopes created; the
\* shared file and the module's file hold values for them or are missing.
InitExec ==
    /\ files \in {[p \in Paths |-> IF p = GlobalPath THEN g
                                   ELSE IF p = ModPath THEN m ELSE Missing] :
                    g \in GlobalFiles,
                    m \in {Missing,
                           JsonFile(nest_dict(Map(One("a", Scalar(MaxVal))), LogKey))}}
    /\ \E loggers \in SUBSET {LogKey, Log2Key} :
          configs = [k \in {ModKey} \cup loggers |->
                        Config_init(files, k, "file", Map(EmptyDict)).cfg]
    /\ last = [call |-> NoCall, pre |-> NoCfg, fsPre |-> [p \in Paths |-> Missing],
               raised |-> FALSE, ret |-> Null, after |-> "other", was |-> NoCfg]
    /\ ops = 0
    /\ cliInit /\ regIdle /\ parseIdle /\ logIdle /\ dataIdle /\ uiIdle
    /\ inv = NoRun([f \in Flags |-> cli.args[f].config_default])

SpecExec == InitExec /\ [][ExecNext]_vars

\* ------------------------------------------------------------ Logger operations
\* The strings written: up to MaxChars symbols; a name that is not where a
\* tag is looked for is text.
MaxChars == 6
Symbols == {"/", ";", "cr", "__kraken", "_check"}
Strings == UNION {[1..n -> Symbols] : n \in 0..MaxChars}

\* The while loop of Logger._write goes round once.
WriteLoop ==
    /\ lg.status = "writing" /\ lg.remaining # <<>>
    /\ lg' = _write(lg)
    /\ UNCHANGED <<cfgVars, cliVars, cliparser, plast, pargv, pres, inv, dp, ui>>

\* The loop is over: _write returns, and write's finally flushes the stream.
WriteReturn ==
    /\ lg.status = "writing" /\ lg.remaining = <<>>
    /\ lg' = [lg EXCEPT !.status = "done", !.flushed = Len(lg.stream)]
    /\ UNCHANGED <<cfgVars, cliVars, cliparser, plast, pargv, pres, inv, dp, ui>>

LogNext == WriteLoop \/ WriteReturn

\* Logger.write(arg) was called with a string.
InitLog ==
    /\ cfgIdle /\ cliIdle /\ regIdle /\ parseIdle /\ mainIdle /\ dataIdle /\ uiIdle
    /\ \E arg \in Strings : lg = NewWrite(arg)

SpecLog == InitLog /\ [][LogNext]_vars

\* The call runs on: nothing stops the loop between two iterations.
SpecLogFair == SpecLog /\ WF_vars(LogNext)

\* A bare marker and a text after it: letters, some of them the letters of
\* the code "cr", and neither "/" nor ";".
Texts == UNION {[1..n -> {"x", "cr"}] : n \in 0..MaxChars}

\* Logger.write(arg) was called with "/;" followed by a text.
InitMark ==
    /\ cfgIdle /\ cliIdle /\ regIdle /\ parseIdle /\ mainIdle /\ dataIdle /\ uiIdle
    /\ \E text \in Texts : lg = NewWrite(_ANSI_MARK \o text)

SpecMark == InitMark /\ [][LogNext]_vars

\* A _repeat special of a character and a count, and what follows it:
\* nothing, a letter, or a style tag with or without a text and a reset.
Counts == {"0", "2", "20"}
Repeats == {<<"/", ";", "_repeat", "/", "x", ";", n, ";", "/">> : n \in Counts}
Followers ==
    {<<>>, <<"y">>, <<"/", ";", "cr", "/">>, <<"/", ";", "cr", "/", "y", "/", ";">>}

\* Logger.write(arg) was called with a _repeat special and what follows it.
InitRepeat ==
    /\ cfgIdle /\ cliIdle /\ regIdle /\ parseIdle /\ mainIdle /\ dataIdle /\ uiIdle
    /\ \E r \in Repeats, f \in Followers : lg = NewWrite(r \o f)

SpecRepeat == InitRepeat /\ [][LogNext]_vars

\* ------------------------------------------------------------ browser operations
\* Clicks in one behaviour.
MaxClicks == 4

\* A click was handled: count it and keep what the history was.
Clicked(u, op, guid) ==
    [u EXCEPT !.clicks = ui.clicks + 1,
              !.click = [op |-> op, guid |-> guid, pre_history |-> ui.guid_history,
                         pre_index |-> ui.history_index]]

\* The search button, with a GUID in the entry.
NewSearch(guid, outcome, related, saved) ==
    /\ ui.clicks < MaxClicks
    /\ ui' = Clicked(_handle_new_guid_search(ui, guid, outcome, related, saved),
                     "search", strip(guid))
    /\ UNCHANGED <<cfgVars, cliVars, cliparser, plast, pargv, pres, inv, lg, dp>>

\* A click on one of the related GUIDs the browser displays.
RelatedClick(guid, outcome, related, saved) ==
    /\ ui.clicks < MaxClicks
    /\ ui.links
    /\ ui' = Clicked(_handle_related_guid_clicked(ui, guid, outcome, related, saved),
                     "related", strip(guid))
    /\ UNCHANGED <<cfgVars, cliVars, cliparser, plast, pargv, pres, inv, lg, dp>>

\* A click on the back link, enabled or not.
BackClick(outcome, related, saved) ==
    /\ ui.clicks < MaxClicks
    /\ ui' = Clicked(handle_back_clicked(ui, outcome, related, saved), "back", "none")
    /\ UNCHANGED <<cfgVars, cliVars, cliparser, plast, pargv, pres, inv, lg, dp>>

UiNext ==
    \E outcome \in Outcomes, related \in BOOLEAN, saved \in BOOLEAN :
        \/ \E guid \in RawGUIDs : NewSearch(guid, outcome, related, saved)
        \/ \E guid \in RawGUIDs : RelatedClick(guid, outcome, related, saved)
        \/ BackClick(outcome, related, saved)

\* The window is open; the cache file holds assets of earlier runs, if any.
InitUi ==
    /\ cfgIdle /\ cliIdle /\ regIdle /\ parseIdle /\ mainIdle /\ logIdle /\ dataIdle
    /\ \E cache \in [GUIDs -> {"none", "asset"}] : ui = NewUi(cache)

SpecUi == InitUi /\ [][UiNext]_vars

\* ------------------------------------------------------------ DataPrinter operations
\* The dicts written: up to MaxEntries entries, each a string of up to
\* MaxStr characters or a dict of up to MaxInner strings of up to
\* MaxInnerStr characters; up to MaxPrefix characters are written before
\* the dict, and max_inline is between MinInline and MaxInline.
MaxEntries == 2
MaxStr == 3
MaxInner == 2
MaxInnerStr == 1
MaxPrefix == 1
MinInline == 10
MaxInline == 17
InnerDicts == UNION {[1..n -> {StrV(k) : k \in 0..MaxInnerStr}] : n \in 0..MaxInner}
DataValues == {StrV(k) : k \in 0..MaxStr} \cup {DictV(d) : d \in InnerDicts}
Dicts == UNION {[1..n -> DataValues] : n \in 0..MaxEntries}

OneLine(text) == \A i \in 1..Len(text) : text[i] # "\n"

\* Logger.write(prefix, d, data_print = {max_inline, force_inline, compact}).
WriteData ==
    /\ dp.status = "called"
    /\ dp' = [dp EXCEPT !.status = "written",
                        !.stream = write_data(dp.prefix, dp.d,
                            Kwargs("default", dp.max_inline, dp.force_inline, dp.compact, TRUE))]
    /\ UNCHANGED <<cfgVars, cliVars, cliparser, plast, pargv, pres, inv, lg, ui>>

\* The same write again, the i-th value one character longer.
Lengthen(i) ==
    /\ dp.status = "written" /\ ~dp.lengthened
    /\ dp.d[i].t = "s" /\ dp.d[i].v < MaxStr
    /\ \E d \in {[dp.d EXCEPT ![i] = StrV(@.v + 1)]} :
        dp' = [dp EXCEPT !.d = d, !.lengthened = TRUE,
                         !.was_one_line = OneLine(dp.stream),
                         !.stream = write_data(dp.prefix, d,
                             Kwargs("default", dp.max_inline, dp.force_inline, dp.compact, TRUE))]
    /\ UNCHANGED <<cfgVars, cliVars, cliparser, plast, pargv, pres, inv, lg, ui>>

DataNext == WriteData \/ \E i \in 1..MaxEntries : i <= Len(dp.d) /\ Lengthen(i)

InitData ==
    /\ cfgIdle /\ cliIdle /\ regIdle /\ parseIdle /\ mainIdle /\ logIdle /\ uiIdle
    /\ \E prefix \in 0..MaxPrefix, d \in Dicts, max_inline \in MinInline..MaxInline,
          force_inline \in BOOLEAN, compact \in BOOLEAN :
            dp = NewData(prefix, d, max_inline, force_inline, compact)

SpecData == InitData /\ [][DataNext]_vars

\* ============================================================ claims
\* What a claim calls F: the backing file's contents as the scope sees them
\* (an unreadable or absent file, or no backing file, is the empty map; a
\* nested scope sees the subtree at its key).
BackingView(cfg, fs, key) ==
    LET raw == IF cfg.fpath # NoPath /\ fs[cfg.fpath].st = "json"
               THEN fs[cfg.fpath].v ELSE Map(EmptyDict)
    IN IF cfg.nested = "False" THEN raw ELSE dict_path(raw, key, Map(EmptyDict))

\* What a claim calls G: the shared file's subtree at the scope's key, with
\* the subtree under the bound module's key when the scope is bound.
SharedAt(fs, path) ==
    IF fs[GlobalPath].st = "json"
    THEN dict_path(fs[GlobalPath].v, path, Map(EmptyDict)) ELSE Map(EmptyDict)

GlobalView(cfg, fs, key) ==
    IF cfg.nested \in {"False", "True"} THEN SharedAt(fs, key)
    ELSE MergeVal(SharedAt(fs, key), SharedAt(fs, <<cfg.nested>> \o key))

LastIs(op) == last.call.op = op /\ ~last.raised
LastReload(trust) == LastIs("reload") /\ last.call.trust = trust
Now == configs[last.call.key]

\* C3 (as stated): after reload with trust=file the new specificDict is the
\* deep merge, low to high, of the overrides O, the previous in-RAM state S
\* and the backing file F.
C3_Original ==
    LastReload("file") =>
        Now.specific = MergeVal(MergeVal(last.call.arg, last.pre.specific),
                                BackingView(last.pre, last.fsPre, last.call.key))

\* C3 (amended): after reload with trust=file the new specificDict is the
\* deep merge of the overrides O (low) and the backing file F (high); the
\* previous in-RAM state S takes no part.  Key by key: a non-map value of F
\* wins, a key F lacks has O's value, and a key neither holds is absent.
C3_TrustFile ==
    LastReload("file") =>
        LET O == last.call.arg
            F == BackingView(last.pre, last.fsPre, last.call.key)
        IN /\ Now.specific = MergeVal(O, F)
           /\ DOMAIN Now.specific.v = DOMAIN O.v \cup DOMAIN F.v
           /\ \A k \in DOMAIN F.v : ~IsMap(F.v[k]) => Now.specific.v[k] = F.v[k]
           /\ \A k \in DOMAIN O.v \ DOMAIN F.v : Now.specific.v[k] = O.v[k]

\* C3 witness: a trust=file reload with non-empty overrides, over a
\* non-empty backing file, of a scope whose in-RAM state held a key that
\* neither of them holds a map for, and lost it.
C3_Witness ==
    /\ LastReload("file")
    /\ last.call.arg # Map(EmptyDict)
    /\ BackingView(last.pre, last.fsPre, last.call.key) # Map(EmptyDict)
    /\ last.pre.specific # Map(EmptyDict)
    /\ last.pre.specific # Now.specific

\* C4 (as stated): after reload with trust=dict the new specificDict is the
\* deep merge, low to high, of F, S and O, and mergedDict is the shared
\* file's subtree G overridden by specificDict.
C4_Original ==
    LastReload("dict") =>
        LET G == GlobalView(last.pre, last.fsPre, last.call.key)
            F == BackingView(last.pre, last.fsPre, last.call.key)
        IN /\ Now.specific = MergeVal(MergeVal(F, last.pre.specific), last.call.arg)
           /\ Now.merged = MergeVal(G, Now.specific)

\* C4 (amended): after reload with trust=dict the new specificDict is the
\* deep merge, low to high, of F, S and O (caller overrides win over the
\* previous in-RAM state, which wins over the file), and mergedDict is the
\* shared file's subtree G, overridden by the backing file F, overridden by
\* specificDict.
C4_TrustDict ==
    LastReload("dict") =>
        LET G == GlobalView(last.pre, last.fsPre, last.call.key)
            F == BackingView(last.pre, last.fsPre, last.call.key)
            O == last.call.arg
        IN /\ Now.specific = MergeVal(MergeVal(F, last.pre.specific), O)
           /\ \A k \in DOMAIN O.v : ~IsMap(O.v[k]) => Now.specific.v[k] = O.v[k]
           /\ Now.merged = MergeVal(MergeVal(G, F), Now.specific)

\* C4 witness: a trust=dict reload in which O, S, F and G all hold the key
\* "a" and O's value for it is the one in specificDict and mergedDict.
C4_Witness ==
    /\ LastReload("dict")
    /\ "a" \in DOMAIN last.call.arg.v
    /\ "a" \in DOMAIN last.pre.specific.v
    /\ "a" \in DOMAIN BackingView(last.pre, last.fsPre, last.call.key).v
    /\ "a" \in DOMAIN GlobalView(last.pre, last.fsPre, last.call.key).v
    /\ last.pre.specific.v["a"] # last.call.arg.v["a"]
    /\ Now.specific.v["a"] = last.call.arg.v["a"]
    /\ Now.merged.v["a"] = last.call.arg.v["a"]

\* C5 (as stated): after reload with trust=file, mergedDict holds
\* specificDict's value for every key of specificDict, whatever G holds.
C5_Original ==
    LastReload("file") =>
        \A k \in DOMAIN Now.specific.v :
            k \in DOMAIN Now.merged.v /\ Now.merged.v[k] = Now.specific.v[k]

\* C5 (amended): after reload with trust=file, mergedDict is specificDict
\* overridden by the shared subtree G, itself overridden by the backing file
\* F.  So for every key that F holds with a non-map value, mergedDict holds
\* specificDict's value (F's) even when G differs; for a key specificDict has
\* from the overrides only, a non-map value of G wins.
C5_MergedTrustFile ==
    LastReload("file") =>
        LET G == GlobalView(last.pre, last.fsPre, last.call.key)
            F == BackingView(last.pre, last.fsPre, last.call.key)
        IN /\ Now.merged = MergeVal(Now.specific, MergeVal(G, F))
           /\ \A k \in DOMAIN F.v : ~IsMap(F.v[k]) =>
                  Now.merged.v[k] = Now.specific.v[k] /\ Now.merged.v[k] = F.v[k]
           /\ \A k \in (DOMAIN Now.specific.v \cap DOMAIN G.v) \ DOMAIN F.v :
                  ~IsMap(G.v[k]) => Now.merged.v[k] = G.v[k]

\* C5 witness: a trust=file reload where F and G hold different values for
\* "a", F's not a map, and mergedDict has F's.
C5_Witness ==
    /\ LastReload("file")
    /\ LET G == GlobalView(last.pre, last.fsPre, last.call.key)
           F == BackingView(last.pre, last.fsPre, last.call.key)
       IN /\ "a" \in DOMAIN F.v /\ "a" \in DOMAIN G.v
          /\ ~IsMap(F.v["a"]) /\ G.v["a"] # F.v["a"]
          /\ Now.merged.v["a"] = F.v["a"]

\* C6 (as stated): reload is idempotent: a reload that directly follows
\* the identical reload (same scope, trust and overrides, files untouched in
\* between) leaves specificDict and mergedDict as the first one left them.
C6_Original ==
    (LastIs("reload") /\ last.after = "same") =>
        /\ Now.specific = last.pre.specific
        /\ Now.merged = last.pre.merged

\* C6 (amended): a reload that directly follows the identical reload leaves
\* mergedDict as the first one left it, for both trust orders and nested or
\* not; specificDict too under trust=file.
C6_MergedIdempotent ==
    (LastIs("reload") /\ last.after = "same") =>
        /\ Now.merged = last.pre.merged
        /\ last.call.trust = "file" => Now.specific = last.pre.specific

\* C6 witness: the second of two identical trust=dict reloads with
\* non-empty overrides, of a nested scope bound to a module, with a
\* non-empty mergedDict.
C6_Witness ==
    /\ LastReload("dict") /\ last.after = "same"
    /\ last.call.arg # Map(EmptyDict)
    /\ last.pre.nested = ModName
    /\ Now.merged # Now.specific

\* C7: dump(S) to the scope's own file followed by reload(S) reproduces the
\* specificDict S had before the dump, whatever the file held and whether it
\* existed.
C7_RoundTrip ==
    (LastReload("file") /\ last.call.arg = Map(EmptyDict) /\ last.after = "dump") =>
        Now.specific = last.pre.specific

\* The deep recursive union of two dicts, as a relation: every key of both
\* sides; a key of the higher side has the union of the two maps when both
\* hold maps and the higher value otherwise (lists included); a key of the
\* lower side only keeps its value.
RECURSIVE IsDeepUnion(_, _, _)
IsDeepUnion(low, high, res) ==
    /\ DOMAIN res = DOMAIN low \cup DOMAIN high
    /\ \A k \in DOMAIN res :
         IF k \in DOMAIN high
         THEN IF k \in DOMAIN low /\ low[k].t = "m" /\ high[k].t = "m"
              THEN res[k].t = "m" /\ IsDeepUnion(low[k].v, high[k].v, res[k].v)
              ELSE res[k] = high[k]
         ELSE res[k] = low[k]

\* The dict a dump writes: specificDict, nested at the key for a nested
\* scope.
DumpDict(cfg, key) == IF cfg.nested = "False" THEN cfg.specific ELSE nest_dict(cfg.specific, key)

AsEmpty(fs) == [p \in Paths |-> IF fs[p].st = "json" THEN fs[p] ELSE JsonFile(Map(EmptyDict))]

\* C9: a reload never raises because a file is missing, unreadable or
\* malformed, and gives the dicts it would give if that file held {}.
C9_FileErrors ==
    last.call.op = "reload" =>
        /\ ~last.raised
        /\ Now = reload(last.pre, AsEmpty(last.fsPre), last.call.key,
                        last.call.trust, last.call.arg).cfg

\* C9 witness: a reload of a scope whose backing file and shared file are
\* both unreadable, one of them malformed, which kept the overrides.
C9_Witness ==
    /\ LastIs("reload")
    /\ last.pre.fpath # NoPath
    /\ last.fsPre[last.pre.fpath].st # "json"
    /\ last.fsPre[GlobalPath].st # "json"
    /\ "bad" \in {last.fsPre[last.pre.fpath].st, last.fsPre[GlobalPath].st}
    /\ Now.specific # Map(EmptyDict)

\* Whether a dict holds a value at a dotted path.
RECURSIVE Present(_, _)
Present(x, path) ==
    IF path = <<>> THEN TRUE
    ELSE IsMap(x) /\ path[1] \in DOMAIN x.v /\ Present(x.v[path[1]], Tail(path))

RECURSIVE ValueAt(_, _)
ValueAt(x, path) == IF path = <<>> THEN x ELSE ValueAt(x.v[path[1]], Tail(path))

\* C10 (as stated): reading an absent key gives a result that a present key
\* holding null cannot give.
C10_Original ==
    (LastIs("get") /\ last.call.arg.default = Null
        /\ ~Present(Now.merged, last.call.arg.key)) =>
            last.ret # Null

\* C10 (amended): reading an absent key returns the caller's default, None
\* when none is given; a present key returns its value.  With no default the
\* result None therefore means "absent or null": it differs from every
\* empty or non-null value, not from a stored null.
C10_GetDefault ==
    LastIs("get") =>
        /\ last.ret = IF Present(Now.merged, last.call.arg.key)
                      THEN ValueAt(Now.merged, last.call.arg.key)
                      ELSE last.call.arg.default
        /\ last.call.arg.default = Null =>
              (last.ret = Null <=>
                  \/ ~Present(Now.merged, last.call.arg.key)
                  \/ ValueAt(Now.merged, last.call.arg.key) = Null)

\* C10 witness: a read, with no default, of an absent key returns None while
\* mergedDict holds another key with the value null, whose read returns None
\* too.
C10_Witness ==
    /\ LastIs("get")
    /\ last.call.arg.default = Null
    /\ ~Present(Now.merged, last.call.arg.key)
    /\ last.ret = Null
    /\ Present(Now.merged, <<"b">>)
    /\ Config_get(Now, <<"b">>, Null) = Null

\* C11 (as stated): get(key) on the registry returns the scope of the key and
\* creates it when absent; it never fails because the key was not created.
C11_Original ==
    last.call.op = "lookup" => ~last.raised /\ last.call.key \in DOMAIN configs

\* C11 (amended): get(key) on the registry returns the scope stored under the
\* key when one was created, and raises ConfigError when none was; it creates
\* nothing, so the registry holds exactly the scopes it held before.
C11_GetExisting ==
    last.call.op = "lookup" =>
        /\ last.raised <=> last.call.key \notin DOMAIN configs
        /\ ~last.raised => configs[last.call.key] = last.pre

\* get(key) was called for a key no scope was created under, and raised.
C11_Witness ==
    last.call.op = "lookup" /\ last.raised /\ last.call.key = LogKey

\* What a read of the last call's key would return from a scope.
ReadOf(cfg) ==
    IF Present(cfg.merged, last.call.arg.key)
    THEN ValueAt(cfg.merged, last.call.arg.key) ELSE last.call.arg.default

\* The scope as a reload from the files of the moment would leave it.
Reread == reload(last.pre, last.fsPre, last.call.key, "file", Map(EmptyDict)).cfg

RECURSIVE OutsideSame(_, _, _)
OutsideSame(a, b, path) ==
    IF path = <<>> \/ ~IsMap(a) THEN TRUE
    ELSE /\ IsMap(b)
         /\ DOMAIN a.v \ {path[1]} = DOMAIN b.v \ {path[1]}
         /\ \A k \in DOMAIN a.v \ {path[1]} : b.v[k] = a.v[k]
         /\ path[1] \in DOMAIN a.v =>
               /\ path[1] \in DOMAIN b.v
               /\ OutsideSame(a.v[path[1]], b.v[path[1]], Tail(path))

\* The contents of the shared file, {} when it holds none.
SharedDict(fs) == IF fs[GlobalPath].st = "json" THEN fs[GlobalPath].v ELSE Map(EmptyDict)

\* The shared file holds, at the dumped scope's key, the deep merge of what
\* it held there with the scope's in-memory values, and is otherwise as before.
FoldedAtKey ==
    /\ files[GlobalPath].st = "json"
    /\ dict_path(files[GlobalPath].v, last.call.key, Null) =
          MergeVal(dict_path(SharedDict(last.fsPre), last.call.key, Map(EmptyDict)),
                   last.pre.merged)
    /\ OutsideSame(SharedDict(last.fsPre), files[GlobalPath].v, last.call.key)

\* C13: after dump(target=merged) of a scope with key K the shared file's
\* subtree at K is the deep merge of its prior contents with the scope's
\* in-memory values, and every value of the file outside K is unchanged.
C13_MergedFrame ==
    (LastIs("dump") /\ last.call.trust = "merged") => FoldedAtKey

\* The same, for a shared file that held readable JSON before the dump.
C13_ReadableFile ==
    (LastIs("dump") /\ last.call.trust = "merged"
        /\ last.fsPre[GlobalPath].st = "json") => FoldedAtKey

\* C14 (as stated): with files unchanged, binding a nested scope to a module
\* and then unbinding it leaves the scope with no backing file and with the
\* mergedDict it had before it was bound.
C14_Original ==
    (LastIs("unbind") /\ last.was # NoCfg) =>
        /\ Now.fpath = NoPath
        /\ Now.merged = last.was.merged

\* C14 (amended): binding re-points a nested scope to the bound module's
\* backing file; unbinding leaves it nested, with no backing file, an empty
\* specificDict and the shared file's subtree at its key as mergedDict.  That
\* is the mergedDict from before the binding only when the scope then held
\* nothing but that subtree: overrides given to the scope in memory are gone.
C14_UnbindDefaults ==
    /\ LastIs("bind") =>
          /\ Now.nested = ModName
          /\ Now.fpath = configs[ModKey].fpath
    /\ LastIs("unbind") =>
          /\ Now.nested = "True"
          /\ Now.fpath = NoPath
          /\ Now.specific = Map(EmptyDict)
          /\ Now.merged = SharedAt(files, last.call.key)
          /\ last.was # NoCfg =>
                (Now.merged = last.was.merged
                    <=> last.was.merged = SharedAt(files, last.call.key))

\* A scope holding an override in memory was bound and then unbound, and its
\* mergedDict is no longer the one from before the binding.
C14_Witness ==
    /\ LastIs("unbind") /\ last.was # NoCfg
    /\ last.was.fpath = NoPath
    /\ last.was.merged # Now.merged
    /\ Now.merged = SharedAt(files, last.call.key)

\* ------------------------------------------------------------ Cli claims
Raised(exc) == clast.out = [k |-> "raise", v |-> V1(exc)]
Returned(v) == clast.out = [k |-> "ret", v |-> v]

\* What get_arg(flag) gives on a parser, with nothing on standard input.
Resolve(parser, flag) == get_arg(CliState(parser.args, parser.raw, <<>>), flag, 0)

\* --silent resolves to true: asking for it returns True without a prompt.
SilentMode(parser) ==
    LET s == Resolve(parser, "--silent")
    IN s.out = [k |-> "ret", v |-> V1("True")] /\ s.st.g.reads = 0

\* C1: no prompter reads a fourth line, and a get_arg whose prompter had
\* three lines rejected raises CliHelpRequest after the third.
C1_RetryBound ==
    clast.op = "get_arg" =>
        /\ clast.g.maxReads <= MaxRequests
        /\ clast.p.reads <= MaxRequests
        /\ clast.p.rejected = MaxRequests =>
              Raised("CliHelpRequest") /\ clast.p.reads = MaxRequests

\* C1 witness: outside silent mode, three lines typed at the prompt of one
\* get_arg were rejected, CliHelpRequest was raised and the fourth line is
\* still unread.
C1_Witness ==
    /\ clast.op = "get_arg"
    /\ ~SilentMode(clast.pre)
    /\ clast.p.rejected = MaxRequests
    /\ clast.g.reads = MaxRequests
    /\ clast.unread >= 1
    /\ Raised("CliHelpRequest")

\* C2 (as stated): in silent mode every request of get_arg (Missing,
\* Invalid, ConfirmDefault) raises CliError and no line is read.
C2_Original ==
    (clast.op = "get_arg" /\ clast.g.first # "none" /\ SilentMode(clast.pre)) =>
        Raised("CliError") /\ clast.g.reads = 0

\* C2 (amended): in silent mode get_arg reads no line; a Missing or Invalid
\* request raises CliError; a ConfirmDefault request first asks for
\* --auto-confirm: when that resolves to true the default is used and
\* returned without an error, when it resolves to false CliError is raised,
\* and when it fails (it never settles when --auto-confirm has a config
\* default and was neither supplied nor pinned) its error is the outcome.
C2_SilentMode ==
    (clast.op = "get_arg" /\ clast.g.first # "none" /\ SilentMode(clast.pre)) =>
        LET auto == Resolve(clast.pre, "--auto-confirm").out
            a == clast.pre.args[clast.flag]
        IN /\ clast.g.reads = 0
           /\ clast.g.first \in {"Missing", "Invalid"} => Raised("CliError")
           /\ clast.g.first = "Confirm" =>
                 IF auto.k = "raise" THEN clast.out = auto
                 ELSE IF Truthy(auto.v)
                 THEN Returned(IF a.config_default # NoneV THEN a.config_default
                               ELSE ArgDef(clast.flag).default)
                 ELSE Raised("CliError")

\* C2 witness: in silent mode, with lines waiting on standard input, a
\* supplied value was invalid: CliError, and every line is still unread.
C2_Witness ==
    /\ clast.op = "get_arg"
    /\ SilentMode(clast.pre)
    /\ clast.g.first = "Invalid"
    /\ Raised("CliError")
    /\ clast.g.reads = 0
    /\ clast.unread = MaxLines

\* A further get_arg for the flag of the last one returns what it returned
\* and reads no input, whatever the terminal would give.
Settled ==
    \A stdin \in Stdins :
       \E r \in {get_arg(CliState(cli.args, cli.raw, stdin), clast.flag, 0)} :
          r.out = clast.out /\ r.st.g.reads = 0

\* C21 (as stated): once get_arg(flag) has returned, a further get_arg(flag)
\* with no reset in between returns the same value and reads no input.
C21_Original ==
    (clast.op = "get_arg" /\ clast.out.k = "ret") => Settled

\* C21 (amended): once get_arg(flag) has returned a value other than None, or
\* has pinned the flag to its default, a further get_arg(flag) with no reset
\* in between returns the same value and reads no input: after the get_arg
\* that just returned, and for the get_arg that followed one.
C21_Pinned ==
    /\ (clast.op = "get_arg" /\ clast.out.k = "ret"
          /\ (clast.out.v # NoneV \/ cli.args[clast.flag].use_default)) => Settled
    /\ (clast.op = "get_arg" /\ clast.prev.k = "ret"
          /\ (clast.prev.v # NoneV \/ clast.pre.args[clast.flag].use_default)) =>
          clast.out = clast.prev /\ clast.g.reads = 0

\* A default affirmed at the prompt was returned, and the next get_arg for
\* the flag returned it again with lines waiting that it did not read.
C21_Witness ==
    /\ clast.op = "get_arg" /\ clast.flag = "--reload"
    /\ clast.prev = [k |-> "ret", v |-> V1("file")]
    /\ clast.out = clast.prev
    /\ clast.pre.args["--reload"].use_default
    /\ clast.g.reads = 0 /\ clast.unread = MaxLines

\* C22: in every reachable state, after any sequence of parse, get_arg with
\* its prompt input and reset, a definition of arity one holds at most one
\* resolved value.
C22_ArityOne ==
    \A flag \in Flags : ArgDef(flag).expect = "one" => Len(cli.args[flag].values) <= 1

\* --reload, of arity one, was supplied with two tokens; get_arg asked again
\* and holds the one value typed at the prompt.
C22_Witness ==
    /\ clast.op = "get_arg" /\ clast.flag = "--reload"
    /\ "--reload" \in DOMAIN clast.pre.raw
    /\ Len(clast.pre.raw["--reload"]) = 2
    /\ clast.g.reads >= 1
    /\ Len(cli.args["--reload"].values) = 1

\* The last get_arg raised a ConfirmDefault request first, on a fresh
\* prompter, and returned with the default applied.
ConfirmedFirst ==
    /\ clast.op = "get_arg" /\ clast.g.first = "Confirm"
    /\ clast.out.k = "ret" /\ cli.args[clast.flag].use_default

AutoConfirmed ==
    /\ ConfirmedFirst
    /\ Resolve(clast.pre, "--auto-confirm").out = [k |-> "ret", v |-> V1("True")]

AffirmedByEmptyInput ==
    /\ ConfirmedFirst
    /\ clast.p.reads = 1 /\ clast.p.rejected = 0

\* C23 (as stated): a ConfirmDefault request affirmed by empty input or
\* resolved by auto-confirm leaves the prompter's attempt counter as it was.
C23_Original ==
    (AutoConfirmed \/ AffirmedByEmptyInput) => clast.p.requests = 0

\* C23 (amended): a ConfirmDefault request resolved by auto-confirm leaves
\* the prompter's attempt counter as it was and reads nothing; one affirmed
\* by empty input at the prompt has raised the counter by one, as every
\* prompt does.
C23_ConfirmCounts ==
    /\ AutoConfirmed => clast.p.requests = 0 /\ clast.p.reads = 0
    /\ AffirmedByEmptyInput => clast.p.requests = 1

\* The config default of --reload was confirmed with an empty line, the
\* first request of its prompter.
C23_Witness ==
    /\ AffirmedByEmptyInput /\ ~AutoConfirmed
    /\ clast.flag = "--reload" /\ clast.out.v = V1("file")
    /\ clast.p.requests = 1

\* The last get_arg was for a flag that was not supplied, not resolved and
\* not pinned to its default, and that has a config-sourced default.
UnsuppliedWithConfigDefault ==
    /\ clast.op = "get_arg"
    /\ clast.flag \notin DOMAIN clast.pre.raw
    /\ clast.pre.args[clast.flag].values = <<>>
    /\ ~clast.pre.args[clast.flag].use_default
    /\ clast.pre.args[clast.flag].config_default # NoneV

\* C20: get_arg for a flag that was not supplied and has a config-sourced
\* default, whatever its value, issues a ConfirmDefault request before the
\* value is used, unless auto-confirm is active.
C20_ConfirmConfigDefault ==
    UnsuppliedWithConfigDefault =>
        \/ clast.g.first = "Confirm"
        \/ Resolve(clast.pre, "--auto-confirm").out = [k |-> "ret", v |-> V1("True")]

\* The same for config-sourced defaults that are true in a condition.
C20_TruthyConfigDefault ==
    (UnsuppliedWithConfigDefault /\ Truthy(clast.pre.args[clast.flag].config_default)) =>
        clast.g.first = "Confirm"

\* Tokens of a command line under study.
MaxTokens == 4

ParseTokens ==
    {"--names", "--reload", "--silent", "--bogus", "-s", "-a", "-sa", "-z",
     "file", "zzz", "a-b", "n"}

\* parse_flags(module_args) on a parser whose arguments were just reset.
ParseArgv ==
    /\ pres.op = "none"
    /\ \E r \in {parse_flags(pargv)} :
          pres' = [NoParse EXCEPT !.op = "parse", !.ok = r.ok, !.raw = r.raw]
    /\ UNCHANGED <<cfgVars, cliVars, cliparser, plast, pargv, inv, lg, dp, ui>>

\* get_arg's consumption of a supplied flag: its raw values leave _raw_flags
\* and go through _validate_raw_values.
ValidateRawValues(flag) ==
    /\ pres.op = "parse" /\ pres.ok
    /\ flag \in DOMAIN pres.raw
    /\ \E r \in {_validate_raw_values(flag, pres.raw[flag])} :
          pres' = [op |-> "validate", ok |-> TRUE,
                   raw |-> [f \in DOMAIN pres.raw \ {flag} |-> pres.raw[f]],
                   flag |-> flag, tokens |-> pres.raw[flag], k |-> r.k,
                   values |-> r.values]
    /\ UNCHANGED <<cfgVars, cliVars, cliparser, plast, pargv, inv, lg, dp, ui>>

ParseNext == ParseArgv \/ \E flag \in Flags : ValidateRawValues(flag)

InitParse ==
    /\ cfgIdle /\ cliIdle /\ regIdle /\ mainIdle /\ logIdle /\ dataIdle /\ uiIdle
    /\ pargv \in UNION {[1..n -> ParseTokens] : n \in 0..MaxTokens}
    /\ pres = NoParse

SpecParse == InitParse /\ [][ParseNext]_vars

\* ------------------------------------------------------------ parse claims
\* The positions of a command line that name a flag: its long form, its short
\* form, or a combined short token holding its letter.
Names(i, flag) ==
    \/ pargv[i] = flag
    \/ pargv[i] \in DOMAIN _short_cli_args_mapping /\ _short_cli_args_mapping[pargv[i]] = flag
    \/ pargv[i] \in CombinedTokens /\ flag \in {"--silent", "--auto-confirm"}

Occurrences(flag) == {i \in 1..Len(pargv) : Names(i, flag)}

\* The tokens after position i up to the next dash-prefixed token.
Following(i) ==
    LET stops == {j \in (i + 1)..Len(pargv) : StartsWithDash(pargv[j])} \cup {Len(pargv) + 1}
        stop == CHOOSE j \in stops : \A k \in stops : j <= k
    IN SubSeq(pargv, i + 1, stop - 1)

\* C16: after a parse the values captured for a flag are the tokens that
\* follow it on the command line, in order, up to the next dash-prefixed
\* token (those of one of its occurrences when it is given several times);
\* validated against the arity-many definition --names they resolve to the
\* list of those tokens, each passed through the definition's type function.
C16_Greedy ==
    /\ (pres.op = "parse" /\ pres.ok) =>
          \A flag \in DOMAIN pres.raw \cap Flags :
             /\ \E i \in Occurrences(flag) : pres.raw[flag] = Following(i)
             /\ \A i \in Occurrences(flag) :
                   Occurrences(flag) = {i} => pres.raw[flag] = Following(i)
    /\ (pres.op = "validate" /\ pres.flag = "--names" /\ Len(pres.tokens) > 0) =>
          /\ pres.k = "ok"
          /\ Len(pres.values) = Len(pres.tokens)
          /\ \A i \in 1..Len(pres.tokens) :
                pres.values[i] = IF pres.tokens[i] = "a-b" THEN "a_b" ELSE pres.tokens[i]

\* --names x y z resolved to [x, y, z].
C16_Witness ==
    /\ pargv = <<"--names", "file", "zzz", "file">>
    /\ pres.op = "validate" /\ pres.flag = "--names"
    /\ pres.values = <<"file", "zzz", "file">>

RECURSIVE Separate(_)
Separate(argv) ==
    IF argv = <<>> THEN <<>>
    ELSE (IF Head(argv) \in CombinedTokens THEN SingleShorts(Head(argv))
          ELSE <<Head(argv)>>) \o Separate(Tail(argv))

\* How a flag resolves from a parse: not supplied, or its validation.
Resolution(parse, flag) ==
    IF ~parse.ok THEN [k |-> "CliError", values |-> <<>>]
    ELSE IF flag \notin DOMAIN parse.raw THEN [k |-> "absent", values |-> <<>>]
    ELSE _validate_raw_values(flag, parse.raw[flag])

\* A combined short token with no value after it is on the command line.
CombinedGiven ==
    /\ pres.op = "parse"
    /\ \E i \in 1..Len(pargv) : pargv[i] \in CombinedTokens
    /\ \A i \in 1..Len(pargv) : pargv[i] \in CombinedTokens => Following(i) = <<>>

\* Every flag resolves alike from the command line and from the one with
\* the combined token separated, and when the parse succeeds --silent and
\* --auto-confirm resolve to true.
SameAsSeparate ==
    /\ \A flag \in Flags :
          Resolution(pres, flag) = Resolution(parse_flags(Separate(pargv)), flag)
    /\ pres.ok => \A flag \in {"--silent", "--auto-confirm"} :
                      Resolution(pres, flag) = [k |-> "ok", values |-> <<"True">>]

\* C18 (as stated): for any command line, a combined short token -sa with no
\* value after it is equivalent to -s -a in its place.
C18_Original == CombinedGiven => SameAsSeparate

\* C18 (amended): a combined short token -sa with no value after it is
\* equivalent to -s -a in its place, and both flags resolve to true, on every
\* command line that gives neither -s nor -a as a short flag of its own with
\* a value.
C18_Combined ==
    (CombinedGiven
        /\ \A i \in 1..Len(pargv) : pargv[i] \in {"-s", "-a"} => Following(i) = <<>>) =>
        SameAsSeparate

\* -sa parsed along with another flag: --silent and --auto-confirm are true.
C18_Witness ==
    /\ CombinedGiven /\ pres.ok
    /\ \E i \in 1..Len(pargv) : pargv[i] = "-s"
    /\ \E i \in 1..Len(pargv) : pargv[i] = "--reload"
    /\ Resolution(pres, "--silent") = [k |-> "ok", values |-> <<"True">>]
    /\ Resolution(pres, "--auto-confirm") = [k |-> "ok", values |-> <<"True">>]

\* A dash-prefixed token that no registered definition answers to.
UnknownFlag(t) ==
    /\ StartsWithDash(t)
    /\ t \notin Flags \cup DOMAIN _short_cli_args_mapping \cup CombinedTokens

\* C19: a command line holding a flag-shaped token, long or short, that
\* matches no registered definition does not parse: CliError is raised.
C19_UnknownFlags ==
    (pres.op = "parse" /\ \E i \in 1..Len(pargv) : UnknownFlag(pargv[i])) => ~pres.ok

\* The same for short flags alone.
C19_UnknownShort ==
    (pres.op = "parse"
        /\ \E i \in 1..Len(pargv) : UnknownFlag(pargv[i]) /\ ~StartsWithDashDash(pargv[i])) =>
        ~pres.ok

\* ------------------------------------------------------------ registration claims
\* C15: registering a definition whose long flag the parser already holds, a
\* built-in flag included, raises an error and leaves the earlier definition
\* of that flag in place.
C15_DuplicateLong ==
    (plast.op = "add" /\ plast.argument.long \in DOMAIN plast.pre.cli_args) =>
        /\ plast.raised
        /\ cliparser.cli_args[plast.argument.long] = plast.pre.cli_args[plast.argument.long]

\* ------------------------------------------------------------ invocation claims
\* C24: when a prompter runs out of attempts during a module's execute, the
\* invocation ends with exit code 1, and never as a success with exit code 0.
C24_ExhaustionFails == inv.exhausted => inv.code = 1

\* C25: a KeyboardInterrupt raised during an invocation is mapped at the top
\* level to exit code 130, which no other uncaught error gets.
C25_InterruptExit ==
    /\ inv.out.exc = "KeyboardInterrupt" => inv.code = 130
    /\ (inv.out.k = "raise" /\ inv.out.exc # "KeyboardInterrupt") => inv.code = 1

\* C26: after the reset at the start of an execute, every argument's
\* config_default is the value the module's config holds for its flag, also
\* when an earlier --blank run cleared the config defaults; so it is at the
\* end of an execute that was not itself a --blank run.
C26_ConfigDefaultReread ==
    (inv.n > 0 /\ ~inv.blank) =>
        \A f \in Flags : cli.args[f].config_default = inv.held[f]

\* ------------------------------------------------------------ conversion claims
\* C27: every error met while get_arg resolves an argument, the failure of
\* the type function on a supplied or entered token included, becomes a
\* request: get_arg raises nothing but the silent failure (CliError) in a
\* silent invocation and the prompter's CliHelpRequest once its attempts
\* are spent.
C27_ErrorsAreRequests ==
    (clast.op = "get_arg" /\ clast.flag = "--test-data" /\ clast.out.k = "raise") =>
        clast.out.v \in {V1("CliError"), V1("CliHelpRequest")}

C29_NothingBeforeSyntaxError ==
    lg.status = "SyntaxError" => lg.stream = <<>> /\ lg.flushed = 0

\* ------------------------------------------------------------ DataPrinter claims
\* The length of the inline serialization of a dict, styles left out:
\* the braces, for each entry its key, the colon and its value, between two
\* entries a comma, and a space after each colon and comma unless compact.
RECURSIVE InlineLen(_, _)
InlineLen(d, compact) ==
    LET gap == IF compact THEN 0 ELSE 1
        value(v) == IF v.t = "m" THEN InlineLen(v.v, compact) ELSE v.v + 2
        RECURSIVE entries(_)
        entries(i) == IF i > Len(d) THEN 0
                      ELSE 1 + 1 + gap + value(d[i]) + (IF i < Len(d) THEN 1 + gap ELSE 0)
                           + entries(i + 1)
    IN 2 + entries(1)

\* The indentation as the dict is measured: what the line holds up to and
\* including the opening brace.
IndentWidth == dp.prefix + 1

Fits == InlineLen(dp.d, dp.compact) + IndentWidth <= dp.max_inline

\* C30, as stated: a map of any number of entries, not forced inline, is
\* rendered on one line exactly when its inline length plus the indentation
\* is at most max_inline.
C30_Original ==
    (dp.status = "written" /\ ~dp.force_inline) => (OneLine(dp.stream) <=> Fits)

\* C30: a map of two entries or more, not forced inline, is rendered on one
\* line exactly when its inline length plus the indentation is at most
\* max_inline, and a longer value that takes the sum one past max_inline
\* moves it from one line to several; a map that fits is on one line
\* whatever its number of entries.
C30_InlineThreshold ==
    (dp.status = "written" /\ ~dp.force_inline) =>
        /\ Fits => OneLine(dp.stream)
        /\ Len(dp.d) >= 2 => (OneLine(dp.stream) <=> Fits)
        /\ (Len(dp.d) >= 2 /\ dp.lengthened /\ dp.was_one_line
              /\ InlineLen(dp.d, dp.compact) + IndentWidth = dp.max_inline + 1)
            => ~OneLine(dp.stream)

\* A map of two entries that was on one line and, one character longer, is
\* one past max_inline and on two lines.
C30_Witness ==
    /\ dp.status = "written" /\ ~dp.force_inline /\ Len(dp.d) >= 2
    /\ dp.lengthened /\ dp.was_one_line
    /\ InlineLen(dp.d, dp.compact) + IndentWidth = dp.max_inline + 1
    /\ ~OneLine(dp.stream)

\* ------------------------------------------------------------ reset claims
\* The parser with the flag as CliModule.__init__ left it and no token of it
\* on the command line, every other flag as it is.
NeverSupplied(c, flag) ==
    [args |-> [c.args EXCEPT ![flag] = ArgState(<<>>, FALSE, @.config_default)],
     raw |-> [f \in DOMAIN c.raw \ {flag} |-> c.raw[f]]]

\* What get_arg(flag) gives on the parser c when the terminal gives stdin.
Resolves(c, flag, stdin) == get_arg(CliState(c.args, c.raw, stdin), flag, 0).out

\* C31: reset_arg(flag) clears the flag's values, its use-default pin and its
\* pending command-line tokens, so that the next get_arg(flag) resolves as
\* for a flag that was never supplied, whatever the terminal gives; every
\* other flag keeps its state and its pending tokens.
C31_ResetArg ==
    clast.op = "reset_arg" =>
        /\ cli.args[clast.flag].values = <<>>
        /\ ~cli.args[clast.flag].use_default
        /\ clast.flag \notin DOMAIN cli.raw
        /\ \A stdin \in Stdins :
              Resolves(cli, clast.flag, stdin) =
                  Resolves(NeverSupplied(clast.pre, clast.flag), clast.flag, stdin)
        /\ \A f \in DOMAIN cli.args \ {clast.flag} :
              /\ cli.args[f] = clast.pre.args[f]
              /\ (f \in DOMAIN cli.raw) = (f \in DOMAIN clast.pre.raw)
              /\ f \in DOMAIN cli.raw => cli.raw[f] = clast.pre.raw[f]

\* A reset of a flag that held a value: before it get_arg returned that
\* value, after it get_arg at a silent terminal returns something else.
C31_Witness ==
    /\ clast.op = "reset_arg"
    /\ clast.pre.args[clast.flag].values # <<>>
    /\ \E stdin \in Stdins :
          Resolves(cli, clast.flag, stdin) # Resolves(clast.pre, clast.flag, stdin)

\* ------------------------------------------------------------ execute claims
\* C32: when execute has ended, however it ended, every nested scope is
\* unbound: it is nested under no module and has no backing file.
C32_Detached ==
    (inv.n > 0 /\ ~inv.running) =>
        \A k \in DOMAIN configs :
            NestedTruthy(configs[k].nested) =>
                configs[k].nested = "True" /\ configs[k].fpath = NoPath

\* An execute that bound two nested scopes to the module's file and ended
\* with an exception.
C32_Witness ==
    /\ inv.n > 0 /\ ~inv.running
    /\ inv.attached = {LogKey, Log2Key}
    /\ inv.out.k = "raise"
    /\ configs[LogKey].fpath = NoPath /\ configs[Log2Key].fpath = NoPath

\* ------------------------------------------------------------ marker claims
\* C33: a write of "/;" followed by a text that holds no "/" and no ";" ends
\* without error, and the stream holds the reset sequence and then the text.
C33_BareMarkerResets ==
    lg.status # "writing" =>
        /\ lg.status = "done"
        /\ lg.stream = <<"ESC[0m">> \o Slice(lg.arg, 3, Len(lg.arg))

\* ------------------------------------------------------------ dump to a missing file
\* The file the last dump wrote to, and the dictionary it dumped.
DumpFile == IF last.call.trust = "merged" THEN GlobalPath ELSE last.pre.fpath
DumpedDict ==
    IF last.call.trust = "merged" \/ NestedTruthy(last.pre.nested)
    THEN nest_dict(IF last.call.trust # "merged" THEN last.pre.specific
                   ELSE last.pre.merged, last.call.key)
    ELSE last.pre.specific

\* C34: when dump returns without raising for a scope whose target file did
\* not exist before the call, the file exists afterwards and holds the dumped
\* dictionary.
C34_DumpCreatesFile ==
    (LastIs("dump") /\ last.fsPre[DumpFile].st = "missing") =>
        /\ files[DumpFile].st = "json"
        /\ files[DumpFile].v = json_roundtrip(DumpedDict)

\* ------------------------------------------------------------ rejected registrations
\* C35: a registration that is rejected leaves the parser unchanged: the set
\* of registered long flags and what each holds, the short-to-long mapping
\* and the accepted values of --print-args are those before the call.
C35_RejectedUnchanged ==
    (plast.op = "add" /\ plast.raised) =>
        /\ DOMAIN cliparser.cli_args = DOMAIN plast.pre.cli_args
        /\ \A l \in DOMAIN plast.pre.cli_args :
              cliparser.cli_args[l] = plast.pre.cli_args[l]
        /\ cliparser.short_map = plast.pre.short_map
        /\ cliparser.print_accepted = plast.pre.print_accepted

\* ------------------------------------------------------------ termination of get_arg
\* C36: get_arg comes to an end by itself, with a value or an exception of
\* the program: the calls of get_arg below a get_arg never nest without end.
C36_GetArgTerminates ==
    clast.op = "get_arg" => ~Raised("RecursionError")

\* ------------------------------------------------------------ the confirmed default
\* CliConfirmRequest.prepare_prompter: the default the prompt displays
\* (" Confirm default: ", self.argument.default, " or override: ").
prepare_prompter_default(flag) == ArgDef(flag).default

\* C38: when a ConfirmDefault request is affirmed at the prompt, the value
\* get_arg returns is the default the prompt displayed.
C38_AffirmedIsDisplayed ==
    AffirmedByEmptyInput => clast.out.v = prepare_prompter_default(clast.flag)

\* ------------------------------------------------------------ long expansions
\* C37: a string in which every tag expands to text without tags is rendered
\* completely, whatever the length of its expansion: the write ends with
\* the whole string consumed and without the overflow error.
C37_TagFreeRendered ==
    lg.status # "writing" => lg.status = "done" /\ lg.remaining = <<>>

\* ------------------------------------------------------------ browser claims
\* C39: a GUID is marked not-found in the asset cache only after a search
\* that completed and did not find it.
C39_NotFoundOnlyAfterMiss ==
    \A g \in GUIDs : ui.cache[g] = "not_found" => g \in ui.missed

\* C40: history_index is -1 exactly when the history is empty and is
\* otherwise an index of it; the GUID at history_index is the GUID
\* displayed; the back link is enabled exactly when history_index > 0; and a
\* related click leaves the history as the entries up to the index it had,
\* followed by the GUID clicked.
C40_History ==
    /\ ui.history_index = -1 <=> ui.guid_history = <<>>
    /\ ui.guid_history # <<>> =>
          /\ 0 <= ui.history_index /\ ui.history_index <= Len(ui.guid_history) - 1
          /\ ui.guid_history[ui.history_index + 1] = ui.displayed
    /\ ui.back_enabled <=> ui.history_index > 0
    /\ ui.click.op = "related" =>
          /\ ui.guid_history =
                Append(SubSeq(ui.click.pre_history, 1, ui.click.pre_index + 1), ui.click.guid)
          /\ ui.history_index = ui.click.pre_index + 1

\* A related click after going back, which has dropped a forward entry that
\* is not the GUID clicked.
C40_Witness ==
    /\ ui.click.op = "related"
    /\ ui.click.pre_index = 0 /\ Len(ui.click.pre_history) = 2
    /\ ui.click.pre_history[2] # ui.click.guid
    /\ ui.guid_history = <<ui.click.pre_history[1], ui.click.guid>>
    /\ ui.back_enabled

====
